---- MODULE Spec2Model ----
(***************************************************************************)
(* State-machine model of tools/socgen/socmap_gen.py (ESP SoC map          *)
(* generator): the soc_config constructor, which walks the tile grid and   *)
(* assigns identifiers, bus indices and interrupt lines, and the renderers *)
(* print_mapping, print_load_script and print_soc_defines that consume the *)
(* resolved configuration.                                                 *)
(***************************************************************************)
EXTENDS Integers, Sequences, FiniteSets, TLC

VARIABLES
    soc,          \* the topology and scalar options handed to soc_config(soc)
    pc,           \* "idle" | "walk" | "done" | "error"
    esp_config,   \* <<>> or <<instance>>: the soc_config object under construction / built
    loc,          \* local variables of soc_config.__init__
    SLM_HADDR,    \* module-level global, reassigned by print_mapping
    contig_alloc_ddr, \* class-level list soc_config.contig_alloc_ddr
    prev,         \* <<>> or <<contents>> of the previously completed resolution
    runs,         \* number of soc_config(soc) calls started
    nrender,      \* number of renderer calls since the last resolution completed
    out           \* what the renderers wrote for the current configuration

vars == <<soc, pc, esp_config, loc, SLM_HADDR, contig_alloc_ddr, prev, runs, nrender, out>>

-----------------------------------------------------------------------------
(* Bounds of the model *)

\* number of soc_config(soc) calls in one process
MaxRuns == 2
\* number of renderer calls made on one resolved configuration
MaxRenders == 2
\* columns of the widest grid (its rows are WideRows)
WideCols == 6
WideRows == 3

-----------------------------------------------------------------------------
(* Platform constants, socmap_gen.py lines 16-163 *)

NAPBS == 512
NAHBS == 32
IRQ_LINES == 32
NCPU_MAX == 16
NMEM_MAX == 16
NSLM_MAX == 16
NFULL_COHERENT_MAX == 16
NLLC_COHERENT_MAX == 256
NTILE_MAX == 256
NACC_MAX == NAPBS - NCPU_MAX - NMEM_MAX - NTILE_MAX - 8

AHBROM_HINDEX == 0
AHB2APB_HINDEX == 1
RISCV_CLINT_HINDEX == 2
FB_HINDEX == 3
SLM_HINDEX == 20

\* AHB2APB_HADDR: 0x800 (leon3), 0x600 (ariane, ibex)
AHB2APB_HADDR == [leon3 |-> 2048, ariane |-> 1536, ibex |-> 1536]
\* DDR_HADDR: 0x400 (leon3), 0x800 (ariane, ibex)
DDR_HADDR == [leon3 |-> 1024, ariane |-> 2048, ibex |-> 2048]
\* ahb2apb_hmask = 16#F00#: the I/O bridge decodes 0x100 units from its base
AHB2APB_WINDOW == 256
\* slmddr_kbytes / 1024: the units of one SLM-with-DDR region
SLMDDR_REGION == 512
\* SLM_HADDR = 0x040 at module load
SLM_HADDR_INIT == 64
\* SLMDDR_HADDR = 0xC00
SLMDDR_HADDR == 3072
\* DDR_SIZE = 0x400
DDR_SIZE == 1024

\* Python lists: indexing past the end raises IndexError
DDR_HINDEX == [i \in 0 .. NMEM_MAX - 1 |-> 4 + i]
L2_CACHE_PINDEX == [i \in 0 .. NCPU_MAX - 1 |-> 8 + i]
\* the LLC band laid over the private-cache band
LLC_CACHE_PINDEX_AtL2Base == [i \in 0 .. NMEM_MAX - 1 |-> 8 + i]
LLC_CACHE_PINDEX == [i \in 0 .. NMEM_MAX - 1 |-> 24 + i]
CSR_PINDEX == [i \in 0 .. NTILE_MAX - 1 |-> 40 + i]
SLD_APB_PINDEX == 40 + NTILE_MAX

\* interrupt lines of the Ethernet MAC and of the SGMII PHY (eth0_pconfig,
\* sgmii0_pconfig)
ETH_PIRQ == 12
SGMII_PIRQ == 11

\* CSR_APB_ADDR = 0x900, CSR_APB_ADDR_MSK = 0xffe
CSR_APB_ADDR == 2304
CSR_APB_ADDR_MSK == 4094
\* SLD_APB_ADDR = 0x100, SLD_APB_ADDR_MSK = 0xffe
SLD_APB_ADDR == 256
SLD_APB_ADDR_MSK == 4094

\* third-party APB windows, in bytes
THIRDPARTY_APB_ADDRESS == 0
\* 0x00040000
THIRDPARTY_APB_ADDRESS_SIZE == 262144
\* 0x00400000
THIRDPARTY_APB_EXT_ADDRESS == 4194304
\* 0x00100000
THIRDPARTY_APB_EXT_ADDRESS_SIZE == 1048576

-----------------------------------------------------------------------------
(* Integer helpers for Python's bit operators on 12-bit fields *)

\* 0xfff & ~n, for any integer n (two's complement)
Mask12Not(n) == 4095 - (n % 4096)

RECURSIVE BitAnd(_, _)
\* a & b for naturals
BitAnd(a, b) ==
    IF a = 0 \/ b = 0 THEN 0
    ELSE (a % 2) * (b % 2) + 2 * BitAnd(a \div 2, b \div 2)

\* n >> k for naturals
Shr(n, k) == n \div (2 ^ k)

-----------------------------------------------------------------------------
(* The input: soc.noc.topology and the scalar options read by __init__ *)

CPU_ARCHS == {"leon3", "ariane", "ibex"}

\* soc.IPs.ACCELERATORS: the accelerator names known to the platform
ACCELERATORS == {"FFT", "NVDLA"}

Cell(ip, v, l2, ddr) == [ip_type |-> ip, vendor |-> v, has_l2 |-> l2, has_ddr |-> ddr]

KCpu    == Cell("cpu", "", 1, 0)
\* a CPU cell whose has_l2 flag is clear (the flag is not read for CPUs)
KCpuNoL2 == Cell("cpu", "", 0, 0)
KMem    == Cell("mem", "", 0, 0)
KSlm    == Cell("slm", "", 0, 0)
KSlmDdr == Cell("slm", "", 0, 1)
KIO     == Cell("IO", "", 0, 0)
KEmpty  == Cell("empty", "", 0, 0)
KAcc    == Cell("FFT", "sld", 0, 0)
KAccL2  == Cell("FFT", "sld", 1, 0)
KTp     == Cell("NVDLA", "nvidia", 0, 0)
KTpL2   == Cell("NVDLA", "nvidia", 1, 0)

Kinds == {KCpu, KCpuNoL2, KMem, KSlm, KSlmDdr, KIO, KEmpty, KAcc, KAccL2, KTp, KTpL2}

\* A grid whose cells repeat the sequence pat in row-major order
PatternGrid(rows, cols, pat) ==
    [x \in 0 .. rows - 1 |->
        [y \in 0 .. cols - 1 |-> pat[((y + x * cols) % Len(pat)) + 1]]]

\* every 1x1 and 1x2 grid
SmallTopologies ==
    {[rows |-> 1, cols |-> 1, topology |-> PatternGrid(1, 1, <<a>>)] : a \in Kinds}
    \cup {[rows |-> 1, cols |-> 2, topology |-> PatternGrid(1, 2, <<a, b>>)] :
            a \in Kinds, b \in Kinds}

\* mixed grids with several rows: the I/O tile, CPUs, memories, SLMs and
\* accelerators interleaved
MixedPatterns ==
    { <<KCpu, KIO, KMem>>,
      <<KMem, KCpu, KAccL2, KMem, KIO, KTp>>,
      <<KSlm, KTp, KSlmDdr, KCpu, KTpL2, KIO>>,
      <<KAccL2, KCpu, KEmpty, KMem, KAcc, KCpu, KIO, KSlm, KMem>>,
      <<KMem, KMem, KCpu, KMem, KIO, KMem, KAcc, KMem>>,
      <<KSlmDdr, KCpuNoL2, KTp, KIO, KMem, KIO>>,
      <<KSlm, KSlmDdr, KSlm, KIO, KSlmDdr, KSlm, KSlmDdr, KCpu>> }

MixedTopologies ==
    {[rows |-> d[1], cols |-> d[2], topology |-> PatternGrid(d[1], d[2], p)] :
        d \in {<<1, 3>>, <<2, 3>>, <<2, 4>>, <<3, 3>>, <<4, 2>>}, p \in MixedPatterns}

\* the widest grid, filled with one kind or with a mixed pattern
WideTopologies ==
    {[rows |-> WideRows, cols |-> WideCols,
      topology |-> PatternGrid(WideRows, WideCols, p)] :
        p \in {<<a>> : a \in Kinds} \cup MixedPatterns}

\* a grid with one CPU, the I/O tile, one memory tile and accelerators in
\* every other cell: more accelerators than the interrupt controller has lines
AcceleratorTopologies ==
    {[rows |-> 5, cols |-> 6,
      topology |-> PatternGrid(5, 6,
          [k \in 1 .. 30 |-> IF k = 1 THEN KCpu ELSE IF k = 2 THEN KIO
                             ELSE IF k = 3 THEN KMem ELSE KAcc])]}

Topologies ==
    SmallTopologies \cup MixedTopologies \cup WideTopologies \cup AcceleratorTopologies

\* scalar options: SLM capacity per tile (KB), peripherals, NoC widths
Profiles ==
    { [slm_kbytes |-> 512, svga_en |-> FALSE, eth_en |-> FALSE, HAS_SGMII |-> FALSE,
       coh_noc_width |-> 32, dma_noc_width |-> 32],
      [slm_kbytes |-> 2048, svga_en |-> TRUE, eth_en |-> TRUE, HAS_SGMII |-> TRUE,
       coh_noc_width |-> 64, dma_noc_width |-> 64] }

SocInputs ==
    {[rows |-> g.rows, cols |-> g.cols, topology |-> g.topology,
      CPU_ARCH |-> a, cache_en |-> c,
      slm_kbytes |-> p.slm_kbytes, svga_en |-> p.svga_en, eth_en |-> p.eth_en,
      HAS_SGMII |-> p.HAS_SGMII, coh_noc_width |-> p.coh_noc_width,
      dma_noc_width |-> p.dma_noc_width] :
        g \in Topologies, a \in CPU_ARCHS, c \in {0, 1}, p \in Profiles}

Coords(s) == (0 .. s.rows - 1) \X (0 .. s.cols - 1)

\* soc.noc.get_cpu_num / get_mem_num / get_slm_num / get_slmddr_num / get_acc_num
get_cpu_num(s) == Cardinality({c \in Coords(s) : s.topology[c[1]][c[2]].ip_type = "cpu"})
get_mem_num(s) == Cardinality({c \in Coords(s) : s.topology[c[1]][c[2]].ip_type = "mem"})
get_slm_num(s) ==
    Cardinality({c \in Coords(s) : /\ s.topology[c[1]][c[2]].ip_type = "slm"
                                   /\ s.topology[c[1]][c[2]].has_ddr = 0})
get_slmddr_num(s) ==
    Cardinality({c \in Coords(s) : /\ s.topology[c[1]][c[2]].ip_type = "slm"
                                   /\ s.topology[c[1]][c[2]].has_ddr # 0})
get_acc_num(s) ==
    Cardinality({c \in Coords(s) : s.topology[c[1]][c[2]].ip_type \in ACCELERATORS})

-----------------------------------------------------------------------------
(* Classes acc_info, cache_info, tile_info: the class-level defaults *)

acc_info == [uppercase_name |-> "", vendor |-> "", id |-> -1, idx |-> -1, irq |-> 5]

cache_info == [id |-> -1, idx |-> -1]

tile_info ==
    [type |-> "empty", row |-> 0, col |-> 0,
     cpu_id |-> -1, mem_id |-> -1, slm_id |-> -1, slmddr_id |-> -1,
     l2 |-> cache_info, llc |-> cache_info, dvfs |-> cache_info, acc |-> acc_info,
     has_l2 |-> 0, has_ddr |-> 0]

\* int(a / b) for a >= 0, b > 0
IntDiv(a, b) == a \div b

\* soc_config.__init__, lines 258-304: the fields set before the tile walk.
\* nl2, nthirdparty, ndvfs and dvfs_ctrls are never assigned here: a new
\* object reads the class attributes (0, 0, 0, []).
NewConfig(s) ==
    LET nslm == get_slm_num(s)
        nslmddr == get_slmddr_num(s)
        slm_tot == IF nslm # 0 THEN s.slm_kbytes * nslm ELSE 0
        slmddr_kbytes == 512 * 1024
        slmddr_tot == IF nslmddr # 0 THEN slmddr_kbytes * nslmddr ELSE 0
        coherence == s.cache_en # 0
        nacc == get_acc_num(s)
        nmem == get_mem_num(s)
        ntiles == s.rows * s.cols
    IN [cpu_arch |-> s.CPU_ARCH,
        coh_noc_width |-> s.coh_noc_width,
        dma_noc_width |-> s.dma_noc_width,
        ncpu |-> get_cpu_num(s),
        nmem |-> nmem,
        nslm |-> nslm,
        slm_kbytes |-> s.slm_kbytes,
        slm_tot_kbytes |-> slm_tot,
        slm_full_mask |-> IF slm_tot > 1024
                          THEN Mask12Not(IntDiv(slm_tot, 1024) - 1)
                          ELSE 4095,
        nslmddr |-> nslmddr,
        slmddr_kbytes |-> slmddr_kbytes,
        slmddr_tot_kbytes |-> slmddr_tot,
        slmddr_full_mask |-> Mask12Not(IntDiv(slmddr_tot, 1024) - 1),
        nacc |-> nacc,
        ntiles |-> ntiles,
        coherence |-> coherence,
        has_svga |-> s.svga_en,
        has_eth |-> s.eth_en,
        has_sgmii |-> s.HAS_SGMII,
        ncdma |-> IF coherence THEN nacc + 1 ELSE 0,
        nllc |-> IF coherence THEN nmem ELSE 0,
        nl2 |-> 0,
        ndvfs |-> 0,
        nthirdparty |-> 0,
        accelerators |-> << >>,
        l2s |-> << >>,
        llcs |-> << >>,
        dvfs_ctrls |-> << >>,
        tiles |-> [t \in 0 .. ntiles - 1 |-> tile_info]]

\* locals of __init__ carried over from an earlier call instead of being reset
InitLocals_NoReset(cfg, old) ==
    [old EXCEPT !.x = 0, !.y = 0]

\* the accelerator private-cache counter started at 0 instead of ncpu
InitLocals_L2FromZero(cfg, old) ==
    [x |-> 0, y |-> 0,
     cpu_id |-> 0, cpu_dvfs_id |-> 0, acc_l2_id |-> 0,
     llc_id |-> 0, mem_id |-> 0, slm_id |-> 0, slmddr_id |-> 0, acc_id |-> 0,
     acc_irq |-> IF cfg.cpu_arch = "ariane" \/ cfg.cpu_arch = "ibex" THEN 5 ELSE 3]

\* __init__ lines 306-326: the counters before the walk (old: the values the
\* same names held when the previous call ended)
InitLocals(cfg, old) ==
    [x |-> 0, y |-> 0,
     cpu_id |-> 0, cpu_dvfs_id |-> 0, acc_l2_id |-> cfg.ncpu,
     llc_id |-> 0, mem_id |-> 0, slm_id |-> 0, slmddr_id |-> 0, acc_id |-> 0,
     acc_irq |-> IF cfg.cpu_arch = "ariane" \/ cfg.cpu_arch = "ibex" THEN 5 ELSE 3]

\* the locals before __init__ has ever run
NoLocals ==
    [x |-> 0, y |-> 0,
     cpu_id |-> 0, cpu_dvfs_id |-> 0, acc_l2_id |-> 0,
     llc_id |-> 0, mem_id |-> 0, slm_id |-> 0, slmddr_id |-> 0, acc_id |-> 0,
     acc_irq |-> 3]

-----------------------------------------------------------------------------
(* The loop body of __init__, lines 330-401.  A walk state is                *)
(* [cfg, loc, raised]; raised records an IndexError, after which the rest    *)
(* of the body does not run.                                                  *)

\* lines 331-340
TileHeader(s, cell, t) ==
    [s EXCEPT !.cfg.tiles[t].row = s.loc.x,
              !.cfg.tiles[t].col = s.loc.y,
              !.cfg.tiles[t].has_l2 = cell.has_l2,
              !.cfg.tiles[t].has_ddr = cell.has_ddr]

\* the CPU branch with the identifier counter left where it was
CpuBranch_NoIncrement(s, cell, t) ==
    IF s.raised \/ cell.ip_type # "cpu" THEN s
    ELSE [s EXCEPT !.cfg.tiles[t].type = "cpu",
                   !.cfg.tiles[t].cpu_id = s.loc.cpu_id]

\* lines 343-353
CpuBranch(s, cell, t) ==
    IF s.raised \/ cell.ip_type # "cpu" THEN s
    ELSE LET cpu_id == s.loc.cpu_id
             typed == [s EXCEPT !.cfg.tiles[t].type = "cpu",
                                !.cfg.tiles[t].cpu_id = cpu_id]
         IN IF s.cfg.coherence
            THEN IF cpu_id \notin DOMAIN L2_CACHE_PINDEX
                 THEN [typed EXCEPT !.raised = TRUE]
                 ELSE LET l2 == [id |-> cpu_id, idx |-> L2_CACHE_PINDEX[cpu_id]]
                      IN [typed EXCEPT !.cfg.l2s = Append(@, l2),
                                       !.cfg.tiles[t].l2 = l2,
                                       !.cfg.nl2 = @ + 1,
                                       !.loc.cpu_id = cpu_id + 1]
            ELSE [typed EXCEPT !.loc.cpu_id = cpu_id + 1]

\* the SLM branch taken whatever the cell's has_ddr flag
SlmBranch_IgnoreDdr(s, cell, t) ==
    IF s.raised \/ cell.ip_type # "slm" THEN s
    ELSE [s EXCEPT !.cfg.tiles[t].type = "slm",
                   !.cfg.tiles[t].slm_id = s.loc.slm_id,
                   !.loc.slm_id = @ + 1]

\* lines 354-357
SlmBranch(s, cell, t) ==
    IF s.raised \/ ~(cell.ip_type = "slm" /\ s.cfg.tiles[t].has_ddr = 0) THEN s
    ELSE [s EXCEPT !.cfg.tiles[t].type = "slm",
                   !.cfg.tiles[t].slm_id = s.loc.slm_id,
                   !.loc.slm_id = @ + 1]

\* lines 358-361
SlmDdrBranch(s, cell, t) ==
    IF s.raised \/ ~(cell.ip_type = "slm" /\ s.cfg.tiles[t].has_ddr # 0) THEN s
    ELSE [s EXCEPT !.cfg.tiles[t].type = "slmddr",
                   !.cfg.tiles[t].slmddr_id = s.loc.slmddr_id,
                   !.loc.slmddr_id = @ + 1]

\* lines 362-372
MemBranch(s, cell, t) ==
    IF s.raised \/ cell.ip_type # "mem" THEN s
    ELSE LET llc_id == s.loc.llc_id
             typed == [s EXCEPT !.cfg.tiles[t].type = "mem",
                                !.cfg.tiles[t].mem_id = s.loc.mem_id,
                                !.loc.mem_id = @ + 1]
         IN IF s.cfg.coherence
            THEN IF llc_id \notin DOMAIN LLC_CACHE_PINDEX
                 THEN [typed EXCEPT !.raised = TRUE]
                 ELSE LET llc == [id |-> llc_id, idx |-> LLC_CACHE_PINDEX[llc_id]]
                      IN [typed EXCEPT !.cfg.llcs = Append(@, llc),
                                       !.cfg.tiles[t].llc = llc,
                                       !.loc.llc_id = llc_id + 1]
            ELSE typed

\* lines 373-374
IOBranch(s, cell, t) ==
    IF s.raised \/ cell.ip_type # "IO" THEN s
    ELSE [s EXCEPT !.cfg.tiles[t].type = "misc"]

\* the counter advanced on every architecture
NextAccIrq_AllArchs(arch, acc_irq) ==
    IF acc_irq + 1 = 11 THEN 13 ELSE acc_irq + 1

\* the counter advanced without the jump over the Ethernet lines
NextAccIrq_NoSkip(arch, acc_irq) ==
    IF arch = "ariane" \/ arch = "ibex" THEN acc_irq + 1 ELSE acc_irq

\* lines 389-393: the interrupt line of the next accelerator
NextAccIrq(arch, acc_irq) ==
    IF arch = "ariane" \/ arch = "ibex"
    THEN (IF acc_irq + 1 = 11 THEN 13 ELSE acc_irq + 1)
    ELSE acc_irq

\* lines 375-401
AccBranch(s, cell, t) ==
    IF s.raised \/ cell.ip_type \notin ACCELERATORS THEN s
    ELSE LET acc_id == s.loc.acc_id
             acc == [uppercase_name |-> cell.ip_type,
                     vendor |-> cell.vendor,
                     id |-> acc_id,
                     idx |-> SLD_APB_PINDEX + acc_id,
                     irq |-> s.loc.acc_irq]
             withacc ==
                 [s EXCEPT !.cfg.tiles[t].type = "acc",
                           !.cfg.nthirdparty = IF acc.vendor # "sld" THEN @ + 1 ELSE @,
                           !.cfg.tiles[t].acc = acc,
                           !.cfg.accelerators = Append(@, acc),
                           !.loc.acc_id = acc_id + 1,
                           !.loc.acc_irq = NextAccIrq(s.cfg.cpu_arch, @)]
         IN IF s.cfg.coherence /\ s.cfg.tiles[t].has_l2 = 1
            THEN LET l2 == [id |-> s.loc.acc_l2_id, idx |-> -1]
                 IN [withacc EXCEPT !.cfg.l2s = Append(@, l2),
                                    !.cfg.tiles[t].l2 = l2,
                                    !.cfg.nl2 = @ + 1,
                                    !.loc.acc_l2_id = @ + 1]
            ELSE withacc

\* one iteration of the loop at lines 328-401 for the cell at (loc.x, loc.y)
LoopBody(cfg, l, s) ==
    LET cell == s.topology[l.x][l.y]
        t == l.y + l.x * s.cols
        s0 == TileHeader([cfg |-> cfg, loc |-> l, raised |-> FALSE], cell, t)
        s1 == CpuBranch(s0, cell, t)
        s2 == SlmBranch(s1, cell, t)
        s3 == SlmDdrBranch(s2, cell, t)
        s4 == MemBranch(s3, cell, t)
        s5 == IOBranch(s4, cell, t)
    IN AccBranch(s5, cell, t)

-----------------------------------------------------------------------------
(* What a completed resolution holds: counts, tile records, descriptor      *)
(* lists, derived totals and masks.                                         *)
Contents(cfg) == cfg

NoOutput == [mapping |-> << >>, tiles |-> << >>, load_script |-> << >>, soc_defines |-> << >>]

Init ==
    /\ soc \in SocInputs
    /\ pc = "idle"
    /\ esp_config = << >>
    /\ loc = NoLocals
    /\ SLM_HADDR = SLM_HADDR_INIT
    /\ contig_alloc_ddr = << >>
    /\ prev = << >>
    /\ runs = 0
    /\ nrender = 0
    /\ out = NoOutput

\* esp_config = soc_config(soc): the call and the code before the loop
StartResolve ==
    /\ pc \in {"idle", "done", "error"}
    /\ runs < MaxRuns
    /\ runs' = runs + 1
    /\ prev' = IF pc = "done" THEN <<Contents(esp_config[1])>> ELSE prev
    /\ LET cfg == NewConfig(soc)
       IN /\ esp_config' = <<cfg>>
          /\ loc' = InitLocals(cfg, loc)
    /\ pc' = "walk"
    /\ nrender' = 0
    /\ out' = NoOutput
    /\ UNCHANGED <<soc, SLM_HADDR, contig_alloc_ddr>>

\* one iteration of the tile loop; the last one returns the object, an
\* IndexError abandons it
WalkTile ==
    /\ pc = "walk"
    /\ LET r == LoopBody(esp_config[1], loc, soc)
           lastcol == loc.y = soc.cols - 1
           last == lastcol /\ loc.x = soc.rows - 1
       IN IF r.raised
          THEN /\ pc' = "error"
               /\ esp_config' = << >>
               /\ loc' = r.loc
          ELSE /\ pc' = IF last THEN "done" ELSE "walk"
               /\ esp_config' = <<r.cfg>>
               /\ loc' = IF last THEN r.loc
                         ELSE [r.loc EXCEPT !.x = IF lastcol THEN @ + 1 ELSE @,
                                            !.y = IF lastcol THEN 0 ELSE @ + 1]
    /\ UNCHANGED <<soc, SLM_HADDR, contig_alloc_ddr, prev, runs, nrender, out>>

-----------------------------------------------------------------------------
(* print_mapping.  An emitted VHDL aggregate "k => v, ..., others => d" is  *)
(* the sequence of its <<k, v>> associations in the order written.          *)

Range0(n) == [i \in 1 .. n |-> i - 1]

\* for i in range(n): if Test(i): write Key(i) => Val(i)
Table(n, Test(_), Key(_), Val(_)) ==
    LET idx == SelectSeq(Range0(n), Test)
    IN [j \in 1 .. Len(idx) |-> <<Key(idx[j]), Val(idx[j])>>]

\* lines 877-881 with the SLM base left at its boot value
SlmBase_NoFallback(cfg, g) == g

\* lines 877-881: the value of the global SLM_HADDR once print_mapping has
\* passed them (g: its value on entry)
SlmBase(cfg, g) == IF cfg.nmem = 0 THEN DDR_HADDR[cfg.cpu_arch] ELSE g

\* lines 882-884
SlmMask(cfg) ==
    IF cfg.slm_kbytes >= 1024
    THEN Mask12Not(IntDiv(cfg.slm_kbytes, 1024) - 1)
    ELSE 4095

RECURSIVE HindexAt(_, _)
\* lines 893-897 / 960-964: the hindex written for region i, counting from start
HindexAt(start, i) ==
    IF i = 0 THEN start
    ELSE LET h == HindexAt(start, i - 1) + 1
         IN IF h = 12 THEN 13 ELSE h

\* lines 886-898
slm_hindex(cfg) ==
    [j \in 1 .. cfg.nslm |-> <<j - 1, HindexAt(SLM_HINDEX, j - 1)>>]

\* lines 905-908
slm_haddr(cfg, base) ==
    [j \in 1 .. cfg.nslm |-> <<j - 1, base + (j - 1) * IntDiv(cfg.slm_kbytes, 1024)>>]

\* lines 915-917
slm_hmask(cfg) == [j \in 1 .. cfg.nslm |-> <<j - 1, SlmMask(cfg)>>]

\* line 951
SlmDdrMask(cfg) == Mask12Not(IntDiv(cfg.slmddr_kbytes, 1024) - 1)

\* lines 953-965
slmddr_hindex(cfg) ==
    [j \in 1 .. cfg.nslmddr |-> <<j - 1, HindexAt(SLM_HINDEX + cfg.nslm, j - 1)>>]

\* lines 949, 972-975
slmddr_haddr(cfg) ==
    [j \in 1 .. cfg.nslmddr |->
        <<j - 1, SLMDDR_HADDR + (j - 1) * IntDiv(cfg.slmddr_kbytes, 1024)>>]

\* lines 982-984
slmddr_hmask(cfg) == [j \in 1 .. cfg.nslmddr |-> <<j - 1, SlmDdrMask(cfg)>>]

\* the region size without the fallback for more than four controllers
DdrSize_NoFallback(cfg) ==
    IF cfg.nmem > 0 THEN IntDiv(DDR_SIZE, cfg.nmem) ELSE DDR_SIZE

\* lines 1019-1026
DdrSize(cfg) ==
    IF cfg.nmem > 0
    THEN (IF cfg.nmem > 4 THEN IntDiv(DDR_SIZE, 8) ELSE IntDiv(DDR_SIZE, cfg.nmem))
    ELSE DDR_SIZE

\* line 1027
DdrMask(cfg) == Mask12Not(DdrSize(cfg) - 1)

\* lines 1056-1058: DDR_HINDEX[i] raises IndexError for i >= NMEM_MAX, after
\* the associations for the smaller i have been written
ddr_hindex(cfg) ==
    LET n == IF cfg.nmem <= NMEM_MAX THEN cfg.nmem ELSE NMEM_MAX
    IN [j \in 1 .. n |-> <<j - 1, DDR_HINDEX[j - 1]>>]

\* lines 1064-1067
ddr_haddr(cfg) ==
    [j \in 1 .. cfg.nmem |->
        <<j - 1, DDR_HADDR[cfg.cpu_arch] + (j - 1) * DdrSize(cfg)>>]

\* lines 1073-1075
ddr_hmask(cfg) == [j \in 1 .. cfg.nmem |-> <<j - 1, DdrMask(cfg)>>]

\* lines 1121-1123 / 1126-1128
AhbsoSlmIndex(k) == IF SLM_HINDEX + k >= 12 THEN SLM_HINDEX + k + 1 ELSE SLM_HINDEX + k

\* lines 1112-1131
fixed_ahbso_hconfig(cfg) ==
    <<  <<AHBROM_HINDEX, [dev |-> "ahbrom", n |-> 0]>>,
        <<AHB2APB_HINDEX, [dev |-> "ahb2apb", n |-> 0]>> >>
    \o (IF cfg.cpu_arch = "ariane" \/ cfg.cpu_arch = "ibex"
        THEN << <<RISCV_CLINT_HINDEX, [dev |-> "clint", n |-> 0]>> >>
        ELSE << >>)
    \o [j \in 1 .. cfg.nmem |-> <<DDR_HINDEX[j - 1], [dev |-> "mig7", n |-> j - 1]>>]
    \o [j \in 1 .. cfg.nslm |-> <<AhbsoSlmIndex(j - 1), [dev |-> "slm", n |-> j - 1]>>]
    \o [j \in 1 .. cfg.nslmddr |->
            <<AhbsoSlmIndex(cfg.nslm + j - 1), [dev |-> "slmddr", n |-> j - 1]>>]
    \o << <<FB_HINDEX, [dev |-> "fb", n |-> 0]>> >>

\* lines 1312-1344: pindex, paddr and pmask of the CSR block of every tile
csr_pconfig(cfg) ==
    LET csr_apb_size == (4095 - CSR_APB_ADDR_MSK) + 1
    IN [j \in 1 .. cfg.ntiles |->
            [tile |-> j - 1,
             pindex |-> CSR_PINDEX[j - 1],
             paddr |-> CSR_APB_ADDR + (j - 1) * csr_apb_size,
             pmask |-> CSR_APB_ADDR_MSK]]

\* the counter advanced by every accelerator, whatever its vendor
ThirdpartyN_AllVendors(cfg, i) == i

\* lines 1351, 1367, 1388: THIRDPARTY_N when accelerator i (0-based) is reached
ThirdpartyN(cfg, i) ==
    Cardinality({k \in 1 .. i : cfg.accelerators[k].vendor # "sld"})

\* lines 1353-1391 for accelerator i (0-based)
AccPconfig(cfg, i) ==
    LET acc == cfg.accelerators[i + 1]
        n == ThirdpartyN(cfg, i)
        ext == THIRDPARTY_APB_EXT_ADDRESS # 0
        address == IF ext THEN 0
                   ELSE THIRDPARTY_APB_ADDRESS + n * THIRDPARTY_APB_ADDRESS_SIZE
        size == IF ext THEN 0 ELSE THIRDPARTY_APB_ADDRESS_SIZE
        address_ext == IF ext
                       THEN THIRDPARTY_APB_EXT_ADDRESS + n * THIRDPARTY_APB_EXT_ADDRESS_SIZE
                       ELSE 0
        size_ext == IF ext THEN THIRDPARTY_APB_EXT_ADDRESS_SIZE ELSE 0
    IN IF acc.vendor = "sld"
       THEN [id |-> acc.id, pindex |-> acc.idx, pirq |-> acc.irq, vendor |-> acc.vendor,
             paddr |-> SLD_APB_ADDR + acc.id * 2, pmask |-> SLD_APB_ADDR_MSK,
             paddr_ext |-> 0, pmask_ext |-> 0]
       ELSE [id |-> acc.id, pindex |-> acc.idx, pirq |-> acc.irq, vendor |-> acc.vendor,
             paddr |-> Shr(address, 8), pmask |-> Mask12Not(Shr(size, 8) - 1),
             paddr_ext |-> Shr(address_ext, 20),
             pmask_ext |-> Mask12Not(Shr(size_ext, 20) - 1)]

\* lines 1353-1464
acc_pconfig(cfg) == [j \in 1 .. cfg.nacc |-> AccPconfig(cfg, j - 1)]

\* lines 1468-1510
fixed_apbo_pconfig(cfg) ==
    <<  <<1, [dev |-> "uart", n |-> 0]>>,
        <<2, [dev |-> "irqmp", n |-> 0]>>,
        <<3, [dev |-> IF cfg.cpu_arch = "ibex" THEN "ibex_timer" ELSE "gptimer", n |-> 0]>>,
        <<4, [dev |-> "esplink", n |-> 0]>> >>
    \o [j \in 1 .. cfg.ndvfs |-> <<cfg.dvfs_ctrls[j].idx, [dev |-> "cpu_dvfs", n |-> j - 1]>>]
    \o Table(cfg.nl2, LAMBDA i : cfg.l2s[i + 1].idx # -1,
                      LAMBDA i : cfg.l2s[i + 1].idx,
                      LAMBDA i : [dev |-> "l2_cache", n |-> cfg.l2s[i + 1].id])
    \o [j \in 1 .. cfg.nllc |-> <<cfg.llcs[j].idx, [dev |-> "llc_cache", n |-> j - 1]>>]
    \o (IF cfg.has_svga THEN << <<5, [dev |-> "svga", n |-> 0]>> >> ELSE << >>)
    \o (IF cfg.has_eth THEN << <<6, [dev |-> "eth0", n |-> 0]>> >> ELSE << >>)
    \o (IF cfg.has_eth /\ cfg.has_sgmii
        THEN << <<7, [dev |-> "sgmii0", n |-> 0]>> >> ELSE << >>)
    \o [j \in 1 .. cfg.ntiles |-> <<CSR_PINDEX[j - 1], [dev |-> "csr", n |-> j - 1]>>]
    \o [j \in 1 .. cfg.nacc |->
            <<cfg.accelerators[j].idx, [dev |-> "acc", n |-> cfg.accelerators[j].id]>>]

-----------------------------------------------------------------------------
(* print_mapping: cross reference arrays, lines 1513-1748 *)

\* lines 1519-1523
tile_cpu_id(cfg) ==
    Table(cfg.ntiles, LAMBDA i : cfg.tiles[i].cpu_id # -1,
                      LAMBDA i : i, LAMBDA i : cfg.tiles[i].cpu_id)

\* the table keyed by tile index instead of CPU identifier
cpu_tile_id_KeyedByTile(cfg) ==
    Table(cfg.ntiles, LAMBDA i : cfg.tiles[i].type = "cpu",
                      LAMBDA i : i, LAMBDA i : i)

\* lines 1529-1536
cpu_tile_id(cfg) ==
    Table(cfg.ntiles, LAMBDA i : cfg.tiles[i].type = "cpu",
                      LAMBDA i : cfg.tiles[i].cpu_id, LAMBDA i : i)

\* lines 1542-1546
tile_cache_id(cfg) ==
    Table(cfg.ntiles, LAMBDA i : cfg.tiles[i].l2.id # -1,
                      LAMBDA i : i, LAMBDA i : cfg.tiles[i].l2.id)

\* lines 1551-1555
cache_tile_id(cfg) ==
    Table(cfg.ntiles, LAMBDA i : cfg.tiles[i].l2.id # -1,
                      LAMBDA i : cfg.tiles[i].l2.id, LAMBDA i : i)

\* lines 1561-1565
l2_cache_pindex(cfg) ==
    Table(cfg.ntiles, LAMBDA i : cfg.tiles[i].type = "cpu" /\ cfg.tiles[i].l2.idx # -1,
                      LAMBDA i : i, LAMBDA i : cfg.tiles[i].l2.idx)

\* lines 1589-1593
tile_llc_id(cfg) ==
    Table(cfg.ntiles, LAMBDA i : cfg.tiles[i].llc.id # -1,
                      LAMBDA i : i, LAMBDA i : cfg.tiles[i].llc.id)

\* lines 1601-1605
llc_tile_id(cfg) ==
    Table(cfg.ntiles, LAMBDA i : cfg.tiles[i].llc.id # -1,
                      LAMBDA i : cfg.tiles[i].llc.id, LAMBDA i : i)

\* lines 1611-1615
llc_cache_pindex(cfg) ==
    Table(cfg.ntiles, LAMBDA i : cfg.tiles[i].type = "mem" /\ cfg.tiles[i].llc.idx # -1,
                      LAMBDA i : i, LAMBDA i : cfg.tiles[i].llc.idx)

\* lines 1624-1628
slm_tile_id(cfg) ==
    Table(cfg.ntiles, LAMBDA i : cfg.tiles[i].slm_id # -1,
                      LAMBDA i : cfg.tiles[i].slm_id, LAMBDA i : i)

\* lines 1634-1638
tile_slm_id(cfg) ==
    Table(cfg.ntiles, LAMBDA i : cfg.tiles[i].slm_id # -1,
                      LAMBDA i : i, LAMBDA i : cfg.tiles[i].slm_id)

\* lines 1647-1651
slmddr_tile_id(cfg) ==
    Table(cfg.ntiles, LAMBDA i : cfg.tiles[i].slmddr_id # -1,
                      LAMBDA i : cfg.tiles[i].slmddr_id, LAMBDA i : i)

\* lines 1657-1661
tile_slmddr_id(cfg) ==
    Table(cfg.ntiles, LAMBDA i : cfg.tiles[i].slmddr_id # -1,
                      LAMBDA i : i, LAMBDA i : cfg.tiles[i].slmddr_id)

\* lines 1669-1673
mem_tile_id(cfg) ==
    Table(cfg.ntiles, LAMBDA i : cfg.tiles[i].mem_id # -1,
                      LAMBDA i : cfg.tiles[i].mem_id, LAMBDA i : i)

\* lines 1679-1683
tile_mem_id(cfg) ==
    Table(cfg.ntiles, LAMBDA i : cfg.tiles[i].mem_id # -1,
                      LAMBDA i : i, LAMBDA i : cfg.tiles[i].mem_id)

\* lines 1689-1691
tile_csr_pindex(cfg) == [j \in 1 .. cfg.ntiles |-> <<j - 1, CSR_PINDEX[j - 1]>>]

\* lines 1697-1701
tile_acc_id(cfg) ==
    Table(cfg.ntiles, LAMBDA i : cfg.tiles[i].acc.id # -1,
                      LAMBDA i : i, LAMBDA i : cfg.tiles[i].acc.id)

\* lines 1707-1711
acc_tile_id(cfg) ==
    Table(cfg.ntiles, LAMBDA i : cfg.tiles[i].acc.id # -1,
                      LAMBDA i : cfg.tiles[i].acc.id, LAMBDA i : i)

RECURSIVE MiscId(_, _)
\* lines 1715-1718: misc_id after the first n tiles have been looked at
MiscId(cfg, n) ==
    IF n = 0 THEN 0
    ELSE IF cfg.tiles[n - 1].type = "misc" THEN n - 1 ELSE MiscId(cfg, n - 1)

\* the first 'misc' tile kept instead of the last
io_tile_id_FirstWins(cfg) ==
    LET misc == {t \in 0 .. cfg.ntiles - 1 : cfg.tiles[t].type = "misc"}
    IN IF misc = {} THEN 0 ELSE CHOOSE t \in misc : \A u \in misc : t <= u

\* line 1719
io_tile_id(cfg) == MiscId(cfg, cfg.ntiles)

\* lines 1731-1739: accelerator tiles, then the association written with the
\* key io_tile_id
tile_dma_id(cfg) ==
    Table(cfg.ntiles, LAMBDA i : cfg.tiles[i].acc.id # -1,
                      LAMBDA i : i, LAMBDA i : cfg.tiles[i].acc.id)
    \o << <<io_tile_id(cfg), cfg.nacc>> >>

\* lines 1741-1748
dma_tile_id(cfg) ==
    Table(cfg.ntiles, LAMBDA i : cfg.tiles[i].acc.id # -1,
                      LAMBDA i : cfg.tiles[i].acc.id, LAMBDA i : i)
    \o << <<cfg.nacc, io_tile_id(cfg)>> >>

\* the "others => d" association closing each tile-indexed aggregate
\* (lines 1523, 1546, 1593, 1638, 1661, 1683, 1701, 1739)
TileTableOthers ==
    [tile_cpu_id |-> 0, tile_cache_id |-> 0, tile_llc_id |-> 0, tile_slm_id |-> 0,
     tile_slmddr_id |-> 0, tile_mem_id |-> 0, tile_acc_id |-> 0, tile_dma_id |-> -1]

\* what print_mapping writes before it reaches the memory controllers
\* (lines 870-1042), base being the SLM base it uses
MappingSlmPart(cfg, base) ==
    [slm_base |-> base,
     slm_hindex |-> slm_hindex(cfg),
     slm_haddr |-> slm_haddr(cfg, base),
     slm_hmask |-> slm_hmask(cfg),
     cpu_tile_slm_hconfig |-> [haddr |-> base, hmask |-> cfg.slm_full_mask],
     slmddr_hindex |-> slmddr_hindex(cfg),
     slmddr_haddr |-> slmddr_haddr(cfg),
     slmddr_hmask |-> slmddr_hmask(cfg),
     cpu_tile_slmddr_hconfig |-> [haddr |-> SLMDDR_HADDR, hmask |-> cfg.slmddr_full_mask],
     cpu_tile_mig7_hconfig |-> [haddr |-> DDR_HADDR[cfg.cpu_arch],
                                hmask |-> Mask12Not(DDR_SIZE - 1)],
     ddr_hindex |-> ddr_hindex(cfg)]

\* lines 1060-1131
MappingDdrPart(cfg) ==
    [ddr_haddr |-> ddr_haddr(cfg),
     ddr_hmask |-> ddr_hmask(cfg),
     fixed_ahbso_hconfig |-> fixed_ahbso_hconfig(cfg)]

\* lines 1311-1748
MappingApbPart(cfg) ==
    [csr |-> csr_pconfig(cfg),
     acc |-> acc_pconfig(cfg),
     fixed_apbo_pconfig |-> fixed_apbo_pconfig(cfg),
     tile_cpu_id |-> tile_cpu_id(cfg),
     cpu_tile_id |-> cpu_tile_id(cfg),
     tile_cache_id |-> tile_cache_id(cfg),
     cache_tile_id |-> cache_tile_id(cfg),
     l2_cache_pindex |-> l2_cache_pindex(cfg),
     tile_llc_id |-> tile_llc_id(cfg),
     llc_tile_id |-> llc_tile_id(cfg),
     llc_cache_pindex |-> llc_cache_pindex(cfg),
     slm_tile_id |-> slm_tile_id(cfg),
     tile_slm_id |-> tile_slm_id(cfg),
     slmddr_tile_id |-> slmddr_tile_id(cfg),
     tile_slmddr_id |-> tile_slmddr_id(cfg),
     mem_tile_id |-> mem_tile_id(cfg),
     tile_mem_id |-> tile_mem_id(cfg),
     tile_csr_pindex |-> tile_csr_pindex(cfg),
     tile_acc_id |-> tile_acc_id(cfg),
     acc_tile_id |-> acc_tile_id(cfg),
     io_tile_id |-> io_tile_id(cfg),
     tile_dma_id |-> tile_dma_id(cfg),
     dma_tile_id |-> dma_tile_id(cfg),
     others |-> TileTableOthers]

\* lines 1885-1922: the associations of apb_tile_id in the order written; the
\* aggregate is closed by "others => 0"
apb_tile_id(cfg) ==
    LET io == io_tile_id(cfg)
        coh == cfg.coherence
    IN [i \in 1 .. 4 |-> <<i - 1, io>>]
       \o (IF cfg.has_svga THEN << <<5, io>> >> ELSE << >>)
       \o (IF cfg.has_eth THEN << <<6, io>> >> ELSE << >>)
       \o (IF cfg.has_eth /\ cfg.has_sgmii THEN << <<7, io>> >> ELSE << >>)
       \o [j \in 1 .. cfg.ntiles |-> <<CSR_PINDEX[j - 1], j - 1>>]
       \o Table(cfg.ntiles,
                LAMBDA i : \/ cfg.tiles[i].type = "acc"
                           \/ (cfg.tiles[i].type = "mem" /\ coh)
                           \/ (cfg.tiles[i].type = "cpu" /\ coh),
                LAMBDA i : IF cfg.tiles[i].type = "acc" THEN cfg.tiles[i].acc.idx
                           ELSE IF cfg.tiles[i].type = "mem" THEN cfg.tiles[i].llc.idx
                           ELSE cfg.tiles[i].l2.idx,
                LAMBDA i : i)

\* line 1922
ApbTileOthers == 0

\* the walk started at 0 instead of a
ScanFrom_Ascending(a, n) == [k \in 1 .. n |-> k - 1]

\* list(range(a, -1, -1)) + list(range(a + 1, n))
ScanFrom(a, n) ==
    [k \in 1 .. a + 1 |-> a + 1 - k] \o [k \in 1 .. n - a - 1 |-> a + k]

\* for i in range(n - 1, -1, -1): if tiles[i].type == type: write i
TilesDescending(cfg, type) ==
    LET up == SelectSeq(Range0(cfg.ntiles), LAMBDA i : cfg.tiles[i].type = type)
    IN [k \in 1 .. Len(up) |-> up[Len(up) + 1 - k]]

\* the CPU tiles appended in ascending order
esp_init_sequence_CpuAscending(cfg, s) ==
    LET misc_id == io_tile_id(cfg)
        rs == ScanFrom(cfg.tiles[misc_id].row, s.rows)
        cs == ScanFrom(cfg.tiles[misc_id].col, s.cols)
        grid == [k \in 1 .. Len(rs) * Len(cs) |->
                    rs[((k - 1) \div Len(cs)) + 1] * s.cols + cs[((k - 1) % Len(cs)) + 1]]
    IN grid \o SelectSeq(Range0(cfg.ntiles), LAMBDA i : cfg.tiles[i].type = "cpu")

\* lines 1925-1942: the positional aggregate esp_init_sequence; the walk over
\* rows and columns starts at the row and column of tile misc_id
esp_init_sequence(cfg, s) ==
    LET misc_id == io_tile_id(cfg)
        rs == ScanFrom(cfg.tiles[misc_id].row, s.rows)
        cs == ScanFrom(cfg.tiles[misc_id].col, s.cols)
        grid == [k \in 1 .. Len(rs) * Len(cs) |->
                    rs[((k - 1) \div Len(cs)) + 1] * s.cols + cs[((k - 1) % Len(cs)) + 1]]
    IN grid \o TilesDescending(cfg, "cpu")

\* the CPU tiles written before the memory tiles
esp_srst_sequence_CpuFirst(cfg) ==
    [first_named |-> FALSE,
     tiles |-> TilesDescending(cfg, "cpu") \o TilesDescending(cfg, "mem")]

\* lines 1944-1967: the aggregate esp_srst_sequence.  It is positional,
\* except that when no memory tile was written and the first CPU tile written
\* holds CPU 0 the element is written as the named association "0 => tile".
esp_srst_sequence(cfg) ==
    LET mems == TilesDescending(cfg, "mem")
        cpus == TilesDescending(cfg, "cpu")
    IN [first_named |-> mems = << >> /\ cpus # << >> /\ cfg.tiles[cpus[1]].cpu_id = 0,
        tiles |-> mems \o cpus]

\* lines 1884-1967
MappingSeqPart(cfg, s) ==
    [apb_tile_id |-> apb_tile_id(cfg),
     apb_others |-> ApbTileOthers,
     esp_init_sequence |-> esp_init_sequence(cfg, s),
     esp_srst_sequence |-> esp_srst_sequence(cfg)]

\* print_mapping(fp, soc, esp_config): what reaches socmap.vhd.  The parts
\* are written in order; DDR_HINDEX[i] (line 1057) raises IndexError when
\* nmem > NMEM_MAX and CSR_PINDEX[i] (line 1319) when ntiles > NTILE_MAX,
\* and nothing after the raise is written.
MappingOutput(cfg, base, s) ==
    [raised |-> cfg.nmem > NMEM_MAX \/ cfg.ntiles > NTILE_MAX,
     slm |-> <<MappingSlmPart(cfg, base)>>,
     ddr |-> IF cfg.nmem > NMEM_MAX THEN << >> ELSE <<MappingDdrPart(cfg)>>,
     apb |-> IF cfg.nmem > NMEM_MAX \/ cfg.ntiles > NTILE_MAX
             THEN << >> ELSE <<MappingApbPart(cfg)>>,
     seq |-> IF cfg.nmem > NMEM_MAX \/ cfg.ntiles > NTILE_MAX
             THEN << >> ELSE <<MappingSeqPart(cfg, s)>>]

\* print_mapping, lines 713-1967
PrintMapping ==
    /\ pc = "done"
    /\ nrender < MaxRenders
    /\ nrender' = nrender + 1
    /\ SLM_HADDR' = SlmBase(esp_config[1], SLM_HADDR)
    /\ out' = [out EXCEPT !.mapping = <<MappingOutput(esp_config[1], SLM_HADDR', soc)>>]
    /\ UNCHANGED <<soc, pc, esp_config, loc, contig_alloc_ddr, prev, runs>>

-----------------------------------------------------------------------------
(* print_tiles, lines 1970-2239: the two bus masks that flag the SLM         *)
(* regions.  A mask "k => '1', ..., others => '0'" is the sequence of the    *)
(* indices k in the order written.                                           *)

\* lines 2217-2221 and 2234-2238
SlmMaskBits(cfg) == [j \in 1 .. cfg.nslm + cfg.nslmddr |-> AhbsoSlmIndex(j - 1)]

\* lines 2213-2222: DDR_HINDEX[j] (line 2216) raises IndexError once j reaches
\* NMEM_MAX, and nothing after the raise is written
remote_ahb_mask_misc(cfg) ==
    [j \in 1 .. (IF cfg.nmem > NMEM_MAX THEN NMEM_MAX ELSE cfg.nmem) |-> DDR_HINDEX[j - 1]]
    \o (IF cfg.nmem > NMEM_MAX THEN << >> ELSE SlmMaskBits(cfg))

\* lines 2232-2239
slm_ahb_mask(cfg) == SlmMaskBits(cfg)

\* what print_tiles writes of the bus masks
TilesOutput(cfg) ==
    [raised |-> cfg.nmem > NMEM_MAX,
     remote_ahb_mask_misc |-> remote_ahb_mask_misc(cfg),
     slm_ahb_mask |-> IF cfg.nmem > NMEM_MAX THEN << >> ELSE <<slm_ahb_mask(cfg)>>]

\* print_tiles(fp, esp_config), called after print_mapping (line 3628)
PrintTiles ==
    /\ pc = "done"
    /\ nrender < MaxRenders
    /\ nrender' = nrender + 1
    /\ out' = [out EXCEPT !.tiles = <<TilesOutput(esp_config[1])>>]
    /\ UNCHANGED <<soc, pc, esp_config, loc, SLM_HADDR, contig_alloc_ddr, prev, runs>>

-----------------------------------------------------------------------------
(* print_load_script, lines 3517-3581.  Byte addresses exceed 2^31, so a    *)
(* byte quantity v is held as [hi, lo] with v = hi * 2^16 + lo.             *)

\* the base of the two-digit representation
W16 == 2 ^ 16

BigNorm(h, l) == [hi |-> h + (l \div W16), lo |-> l % W16]
BigAdd(a, b) == BigNorm(a.hi + b.hi, a.lo + b.lo)
BigSub(a, b) == BigNorm(a.hi - b.hi, a.lo - b.lo)
BigLt(a, b) == a.hi < b.hi \/ (a.hi = b.hi /\ a.lo < b.lo)
BigLe(a, b) == a = b \/ BigLt(a, b)
\* int(a / n) for 0 < n
BigDiv(a, n) == [hi |-> a.hi \div n, lo |-> ((a.hi % n) * W16 + a.lo) \div n]
\* v * 0x100000 for a 12-bit v
BigMB(v) == [hi |-> v * 16, lo |-> 0]

\* line_size = 0x10
LineSize == [hi |-> 0, lo |-> 16]

\* soc.LEON3_STACK, the stack pointer of the Leon3 build (0x5bfffff0)
LEON3_STACK == [hi |-> 23551, lo |-> 65520]

\* lines 3531-3536: the stack pointer
LoadSp(arch) ==
    IF arch = "ariane" \/ arch = "ibex"
    THEN BigSub([hi |-> 40992, lo |-> 0], LineSize)   \* 0xa0200000 - line_size
    ELSE LEON3_STACK

\* lines 3526, 3530-3534: the end of the usable range
LoadEnd(cfg, arch) ==
    IF (arch = "ariane" \/ arch = "ibex") /\ cfg.nthirdparty > 0
    THEN [hi |-> 45056, lo |-> 0]                     \* 0xb0000000
    ELSE BigAdd(BigMB(DDR_HADDR[arch]), BigMB(DDR_SIZE))

\* line 3523: size = int(ddr_size / nmem), in bytes
LoadSize(cfg) == BigDiv(BigMB(DDR_SIZE), cfg.nmem)

\* lines 3526, 3538, 3556: addr at the start of iteration m
LoadAddr(cfg, arch, m) ==
    BigAdd(BigMB(DDR_HADDR[arch]),
           BigNorm(LoadSize(cfg).hi * m, LoadSize(cfg).lo * m))

RECURSIVE LoadLoop(_, _, _)
\* lines 3538-3556: the state after the iterations m = 0 .. n-1.  In the
\* first branch, "size.append" on the integer size raises AttributeError
\* once starts has been extended.
LoadLoop(cfg, arch, n) ==
    IF n = 0
    THEN [addr |-> BigMB(DDR_HADDR[arch]), starts |-> << >>, sizes |-> << >>,
          contig |-> << >>, nddr |-> 0, raised |-> FALSE]
    ELSE LET p == LoadLoop(cfg, arch, n - 1)
             m == n - 1
             size == LoadSize(cfg)
             lim == BigAdd(LoadSp(arch), LineSize)
             end == LoadEnd(cfg, arch)
             top == BigAdd(p.addr, size)
         IN IF p.raised THEN p
            ELSE IF BigLe(lim, p.addr) /\ BigLt(p.addr, end)
            THEN IF BigLe(top, end)
                 THEN [p EXCEPT !.starts = Append(@, p.addr),
                                !.sizes = Append(@, size),
                                !.contig = Append(@, m),
                                !.nddr = @ + 1,
                                !.addr = top]
                 ELSE [p EXCEPT !.starts = Append(@, p.addr),
                                !.raised = TRUE]
            ELSE IF BigLt(lim, top) /\ BigLt(p.addr, end)
            THEN [p EXCEPT !.starts = Append(@, lim),
                           !.sizes = Append(@, IF BigLe(top, end)
                                               THEN BigSub(top, lim)
                                               ELSE BigSub(end, lim)),
                           !.contig = Append(@, m),
                           !.nddr = @ + 1,
                           !.addr = top]
            ELSE [p EXCEPT !.addr = top]

\* lines 3546, 3554: what print_load_script appends to
\* esp_config.contig_alloc_ddr
LoadContig(cfg, arch) == LoadLoop(cfg, arch, cfg.nmem).contig

\* lines 3560-3581: the script written (nothing after the header when the
\* loop raised)
LoadOutput(cfg, arch) ==
    LET r == LoadLoop(cfg, arch, cfg.nmem)
    IN IF r.raised
       THEN [raised |-> TRUE, nddr |-> 0, starts |-> << >>, sizes |-> << >>,
             llc_banks |-> 0]
       ELSE [raised |-> FALSE, nddr |-> r.nddr, starts |-> r.starts,
             sizes |-> r.sizes, llc_banks |-> cfg.nmem]

\* print_load_script, called by create_socmap when nmem != 0 (line 3656)
PrintLoadScript ==
    /\ pc = "done"
    /\ nrender < MaxRenders
    /\ esp_config[1].nmem # 0
    /\ nrender' = nrender + 1
    /\ contig_alloc_ddr' = contig_alloc_ddr \o LoadContig(esp_config[1], soc.CPU_ARCH)
    /\ out' = [out EXCEPT !.load_script = <<LoadOutput(esp_config[1], soc.CPU_ARCH)>>]
    /\ UNCHANGED <<soc, pc, esp_config, loc, SLM_HADDR, prev, runs>>

\* print_soc_defines, lines 2282-2307: the macros written to soc_defs.h
SocDefines(cfg, s, contig) ==
    [SOC_ROWS |-> s.rows,
     SOC_COLS |-> s.cols,
     SOC_NCPU |-> cfg.ncpu,
     SOC_NMEM |-> cfg.nmem,
     SOC_NDDR_CONTIG |-> Len(contig),
     ACCS_PRESENT |-> cfg.nacc > 0,
     SOC_NACC |-> cfg.nacc,
     MONITOR_BASE_ADDR |-> IF cfg.cpu_arch = "leon3" THEN "0x80090000" ELSE "0x60090000",
     YX_WIDTH |-> IF cfg.coh_noc_width = 32 \/ cfg.dma_noc_width = 32 THEN 3 ELSE 4]

\* print_soc_defines
PrintSocDefines ==
    /\ pc = "done"
    /\ nrender < MaxRenders
    /\ nrender' = nrender + 1
    /\ out' = [out EXCEPT !.soc_defines = <<SocDefines(esp_config[1], soc, contig_alloc_ddr)>>]
    /\ UNCHANGED <<soc, pc, esp_config, loc, SLM_HADDR, contig_alloc_ddr, prev, runs>>

Next ==
    \/ StartResolve
    \/ WalkTile
    \/ PrintMapping
    \/ PrintTiles
    \/ PrintLoadScript
    \/ PrintSocDefines

Spec == Init /\ [][Next]_vars

-----------------------------------------------------------------------------
(* Properties *)

Resolved == pc = "done"
Cfg == esp_config[1]
TileIds == 0 .. (soc.rows * soc.cols - 1)
CellOf(t) == soc.topology[t \div soc.cols][t % soc.cols]

IsCpuCell(t) == CellOf(t).ip_type = "cpu"
IsMemCell(t) == CellOf(t).ip_type = "mem"
IsSlmCell(t) == CellOf(t).ip_type = "slm" /\ CellOf(t).has_ddr = 0
IsSlmDdrCell(t) == CellOf(t).ip_type = "slm" /\ CellOf(t).has_ddr # 0
IsAccCell(t) == CellOf(t).ip_type \in ACCELERATORS
IsLlcCell(t) == IsMemCell(t) /\ soc.cache_en # 0

\* number of tiles before t, in row-major order, that satisfy Is
Rank(Is(_), t) == Cardinality({u \in TileIds : u < t /\ Is(u)})
Count(Is(_)) == Cardinality({u \in TileIds : Is(u)})

\* the identifier Id(t) of every tile is its rank among the tiles of the
\* category, -1 on the other tiles, and the category holds n tiles
DenseInScanOrder(Is(_), Id(_), n) ==
    /\ \A t \in TileIds : Id(t) = IF Is(t) THEN Rank(Is, t) ELSE -1
    /\ {Id(t) : t \in {u \in TileIds : Is(u)}} = 0 .. n - 1

\* C1: after resolution the identifiers of the CPU, memory, SLM,
\* SLM-with-DDR, accelerator and LLC-split tiles are 0..count-1, without gap
\* or duplicate, in row-major tile order.
C1_DenseIds ==
    Resolved =>
        /\ DenseInScanOrder(IsCpuCell, LAMBDA t : Cfg.tiles[t].cpu_id, Cfg.ncpu)
        /\ DenseInScanOrder(IsMemCell, LAMBDA t : Cfg.tiles[t].mem_id, Cfg.nmem)
        /\ DenseInScanOrder(IsSlmCell, LAMBDA t : Cfg.tiles[t].slm_id, Cfg.nslm)
        /\ DenseInScanOrder(IsSlmDdrCell, LAMBDA t : Cfg.tiles[t].slmddr_id, Cfg.nslmddr)
        /\ DenseInScanOrder(IsAccCell, LAMBDA t : Cfg.tiles[t].acc.id, Cfg.nacc)
        /\ DenseInScanOrder(IsLlcCell, LAMBDA t : Cfg.tiles[t].llc.id, Cfg.nllc)

C1_Witness ==
    /\ Resolved
    /\ Cfg.ncpu >= 2 /\ Cfg.nmem >= 2 /\ Cfg.nacc >= 2 /\ Cfg.nllc >= 2
    /\ soc.rows >= 2
    /\ \E t \in TileIds : Cfg.tiles[t].cpu_id = 1 /\ Cfg.tiles[t].row >= 1

-----------------------------------------------------------------------------
\* the mapping print_mapping wrote in full for the current configuration
Mapped == Resolved /\ out.mapping # << >> /\ ~out.mapping[1].raised
MapSlm == out.mapping[1].slm[1]
MapDdr == out.mapping[1].ddr[1]
MapApb == out.mapping[1].apb[1]
MapSeq == out.mapping[1].seq[1]

\* reading an aggregate: the key has an association, and only one
Keys(tbl) == {tbl[j][1] : j \in DOMAIN tbl}
Functional(tbl) == \A i, j \in DOMAIN tbl : tbl[i][1] = tbl[j][1] => i = j
ValueAt(tbl, k) == tbl[CHOOSE j \in DOMAIN tbl : tbl[j][1] = k][2]

\* id_of (tile -> id) and tile_of (id -> tile) are inverses of each other on
\* the tiles that carry the category and the n identifiers assigned
MutualInverses(id_of, tile_of, Carries(_), n) ==
    /\ Functional(id_of) /\ Functional(tile_of)
    /\ Keys(id_of) = {t \in TileIds : Carries(t)}
    /\ Keys(tile_of) = 0 .. n - 1
    /\ \A t \in Keys(id_of) :
          /\ ValueAt(id_of, t) \in Keys(tile_of)
          /\ ValueAt(tile_of, ValueAt(id_of, t)) = t
    /\ \A i \in Keys(tile_of) :
          /\ ValueAt(tile_of, i) \in Keys(id_of)
          /\ ValueAt(id_of, ValueAt(tile_of, i)) = i

\* C2: for CPU, private cache, LLC split, memory, SLM, SLM-with-DDR and
\* accelerator, the emitted tile->id and id->tile tables are mutual inverses
\* on the tiles carrying the category and the identifiers assigned.
C2_TablesInverse ==
    Mapped =>
        /\ MutualInverses(MapApb.tile_cpu_id, MapApb.cpu_tile_id,
                          LAMBDA t : Cfg.tiles[t].type = "cpu", Cfg.ncpu)
        /\ MutualInverses(MapApb.tile_cache_id, MapApb.cache_tile_id,
                          LAMBDA t : Cfg.tiles[t].l2.id # -1, Cfg.nl2)
        /\ MutualInverses(MapApb.tile_llc_id, MapApb.llc_tile_id,
                          LAMBDA t : Cfg.tiles[t].llc.id # -1, Cfg.nllc)
        /\ MutualInverses(MapApb.tile_mem_id, MapApb.mem_tile_id,
                          LAMBDA t : Cfg.tiles[t].type = "mem", Cfg.nmem)
        /\ MutualInverses(MapApb.tile_slm_id, MapApb.slm_tile_id,
                          LAMBDA t : Cfg.tiles[t].type = "slm", Cfg.nslm)
        /\ MutualInverses(MapApb.tile_slmddr_id, MapApb.slmddr_tile_id,
                          LAMBDA t : Cfg.tiles[t].type = "slmddr", Cfg.nslmddr)
        /\ MutualInverses(MapApb.tile_acc_id, MapApb.acc_tile_id,
                          LAMBDA t : Cfg.tiles[t].type = "acc", Cfg.nacc)

C2_Witness ==
    /\ Mapped
    /\ Cfg.ncpu >= 2 /\ Cfg.nmem >= 2 /\ Cfg.nacc >= 2 /\ Cfg.nslm >= 1
    /\ Cfg.nl2 > Cfg.ncpu /\ Cfg.nllc >= 2
    /\ Cfg.tiles[0].type # "cpu"
    /\ ValueAt(MapApb.cpu_tile_id, 1) > 1

-----------------------------------------------------------------------------
\* I/O-bus indices of the components of each category
L2Pindex == {Cfg.tiles[t].l2.idx : t \in {u \in TileIds : Cfg.tiles[u].type = "cpu"
                                                        /\ Cfg.coherence}}
LlcPindex == {Cfg.llcs[j].idx : j \in DOMAIN Cfg.llcs}
CsrPindex == {MapApb.csr[j].pindex : j \in DOMAIN MapApb.csr}
AccPindex == {Cfg.accelerators[j].idx : j \in DOMAIN Cfg.accelerators}
ReservedPindex == 0 .. 7

\* C3: no two CPU private caches, no two LLC splits, no two CSR blocks and no
\* two accelerators share an I/O-bus index; every such index lies in the band
\* of its own category (8.., 24.., 40.., 296..), hence is neither a reserved
\* index 0..7 nor an index of another band; fixed_apbo_pconfig places no two
\* slaves at one index.
C3_BusIndices ==
    Mapped =>
        /\ Cardinality(L2Pindex) = (IF Cfg.coherence THEN Cfg.ncpu ELSE 0)
        /\ Cardinality(LlcPindex) = Cfg.nllc
        /\ Cardinality(CsrPindex) = Cfg.ntiles
        /\ Cardinality(AccPindex) = Cfg.nacc
        /\ L2Pindex \subseteq 8 .. (8 + NCPU_MAX - 1)
        /\ LlcPindex \subseteq (8 + NCPU_MAX) .. (8 + NCPU_MAX + NMEM_MAX - 1)
        /\ CsrPindex \subseteq (8 + NCPU_MAX + NMEM_MAX) ..
                               (8 + NCPU_MAX + NMEM_MAX + NTILE_MAX - 1)
        /\ \A i \in AccPindex : i >= 8 + NCPU_MAX + NMEM_MAX + NTILE_MAX
        /\ (L2Pindex \cup LlcPindex \cup CsrPindex \cup AccPindex) \cap ReservedPindex = {}
        /\ Functional(MapApb.fixed_apbo_pconfig)

C3_Witness ==
    /\ Mapped
    /\ Cfg.coherence /\ Cfg.ncpu >= 2 /\ Cfg.nmem >= 2 /\ Cfg.nacc >= 2
    /\ Cfg.has_svga /\ Cfg.has_eth /\ Cfg.has_sgmii
    /\ {5, 6, 7} \subseteq Keys(MapApb.fixed_apbo_pconfig)

-----------------------------------------------------------------------------
\* C4 (as claimed): a topology with more CPU tiles than NCPU_MAX never
\* resolves, with coherence enabled or disabled.
C4_CpuCeilingEnforced ==
    get_cpu_num(soc) > NCPU_MAX => ~Resolved

\* C5 (as claimed): every completed resolution is within the ceilings for
\* memory controllers, SLM tiles, accelerators, private caches and tiles.
C5_CeilingsEnforced ==
    Resolved =>
        /\ Cfg.nmem <= NMEM_MAX
        /\ Cfg.nslm + Cfg.nslmddr <= NSLM_MAX
        /\ Cfg.nacc <= NACC_MAX
        /\ Cfg.nl2 <= NFULL_COHERENT_MAX
        /\ Cfg.ntiles <= NTILE_MAX

-----------------------------------------------------------------------------
\* a 12-bit mask with the high bits set and the low bits clear
IsHighMask(m) == \E k \in 0 .. 12 : (4095 - m) + 1 = 2 ^ k

Values(tbl) == {tbl[j][2] : j \in DOMAIN tbl}

\* C6 (as claimed): every region mask written by print_mapping (SLM,
\* SLM-with-DDR, memory controller, accelerator) has the high bits set and
\* the low bits clear.
C6_MasksContiguous ==
    Mapped =>
        /\ \A m \in Values(MapSlm.slm_hmask) \cup Values(MapSlm.slmddr_hmask) : IsHighMask(m)
        /\ \A m \in Values(MapDdr.ddr_hmask) : IsHighMask(m)
        /\ \A j \in DOMAIN MapApb.acc :
              IsHighMask(MapApb.acc[j].pmask) /\ IsHighMask(MapApb.acc[j].pmask_ext)

\* base & ~mask over 12 bits
Misaligned(base, mask) == BitAnd(base % 4096, 4095 - mask)

Aligned(haddr, hmask) ==
    \A j \in DOMAIN haddr : Misaligned(haddr[j][2], ValueAt(hmask, haddr[j][1])) = 0

\* C7 (as claimed): every SLM, SLM-with-DDR and memory-controller base
\* address is aligned to the mask of its region.
C7_BasesAligned ==
    Mapped =>
        /\ Aligned(MapSlm.slm_haddr, MapSlm.slm_hmask)
        /\ Aligned(MapSlm.slmddr_haddr, MapSlm.slmddr_hmask)
        /\ Aligned(MapDdr.ddr_haddr, MapDdr.ddr_hmask)

-----------------------------------------------------------------------------
C9_RenderersReadOnly ==
    [][(pc = "done" /\ pc' = "done") =>
          /\ esp_config' = esp_config
          /\ contig_alloc_ddr' = contig_alloc_ddr
          /\ SLM_HADDR' = SLM_HADDR]_vars

-----------------------------------------------------------------------------
\* C10: with no memory tile (and the CPU tiles within NCPU_MAX) resolution
\* does not raise, print_mapping does not raise, the SLM base is the DDR base
\* of the architecture, SLM region 0 starts there, and no memory-controller
\* index, address, mask or bus slave is written.
C10_SlmAsMainMemory ==
    (get_mem_num(soc) = 0 /\ get_cpu_num(soc) <= NCPU_MAX) =>
        /\ pc # "error"
        /\ (Resolved /\ out.mapping # << >>) =>
              /\ ~out.mapping[1].raised
              /\ SLM_HADDR = DDR_HADDR[soc.CPU_ARCH]
              /\ MapSlm.slm_base = DDR_HADDR[soc.CPU_ARCH]
              /\ MapSlm.cpu_tile_slm_hconfig.haddr = DDR_HADDR[soc.CPU_ARCH]
              /\ (Cfg.nslm > 0 => MapSlm.slm_haddr[1] = <<0, DDR_HADDR[soc.CPU_ARCH]>>)
              /\ MapSlm.ddr_hindex = << >>
              /\ MapDdr.ddr_haddr = << >>
              /\ MapDdr.ddr_hmask = << >>
              /\ \A j \in DOMAIN MapDdr.fixed_ahbso_hconfig :
                    MapDdr.fixed_ahbso_hconfig[j][2].dev # "mig7"

C10_Witness ==
    /\ Mapped
    /\ Cfg.nmem = 0 /\ Cfg.nslm >= 2 /\ Cfg.ncpu >= 1
    /\ MapSlm.slm_haddr[2][2] > DDR_HADDR[soc.CPU_ARCH]

-----------------------------------------------------------------------------
\* the region size the memory controllers of the current configuration get:
\* the DDR window divided by their number (rounded down) up to four
\* controllers, one eighth of the window beyond
RegionSizeIs(size) ==
    IF Cfg.nmem > 4
    THEN size * 8 = DDR_SIZE
    ELSE size * Cfg.nmem <= DDR_SIZE /\ DDR_SIZE < (size + 1) * Cfg.nmem

\* C11: with n >= 1 memory controllers print_mapping uses one region size,
\* window / n for n <= 4 and window / 8 for n > 4 (so not window / 5 for
\* n = 5); every mask is the 12-bit complement of size - 1 and controller i
\* starts at the DDR base of the architecture plus i * size.
C11_DdrRegions ==
    (Mapped /\ Cfg.nmem >= 1) =>
        \E size \in 1 .. DDR_SIZE :
            /\ RegionSizeIs(size)
            /\ Keys(MapDdr.ddr_haddr) = 0 .. Cfg.nmem - 1
            /\ Keys(MapDdr.ddr_hmask) = 0 .. Cfg.nmem - 1
            /\ Functional(MapDdr.ddr_haddr) /\ Functional(MapDdr.ddr_hmask)
            /\ \A i \in 0 .. Cfg.nmem - 1 :
                  /\ ValueAt(MapDdr.ddr_haddr, i) = DDR_HADDR[soc.CPU_ARCH] + i * size
                  /\ ValueAt(MapDdr.ddr_hmask, i) = 4095 - ((size - 1) % 4096)

C11_Witness ==
    /\ Mapped
    /\ Cfg.nmem = 5
    /\ soc.CPU_ARCH = "ariane"
    /\ ValueAt(MapDdr.ddr_haddr, 4) = 2048 + 4 * 128
    /\ ValueAt(MapDdr.ddr_hmask, 4) = 3968

-----------------------------------------------------------------------------
\* interrupt line of the k-th accelerator in tile-scan order (k from 0)
AccIrq(k) == Cfg.accelerators[k + 1].irq

\* the accelerator descriptors are those of the accelerator tiles, in scan
\* order
AccsInScanOrder ==
    \A t \in TileIds :
        IsAccCell(t) => Cfg.tiles[t].acc = Cfg.accelerators[Rank(IsAccCell, t) + 1]

\* C12 (as claimed): on leon3 the k-th accelerator gets line 3 + k.
C12_Leon3Sequential ==
    (Resolved /\ soc.CPU_ARCH = "leon3") =>
        \A k \in 0 .. Cfg.nacc - 1 : AccIrq(k) = 3 + k

\* C12 (amended): on leon3 every accelerator gets the base line 3, which the
\* accelerators share; the counter is not advanced.
C12_Leon3SharedLine ==
    (Resolved /\ soc.CPU_ARCH = "leon3") =>
        /\ AccsInScanOrder
        /\ \A k \in 0 .. Cfg.nacc - 1 : AccIrq(k) = 3

C12_Witness ==
    /\ Resolved /\ soc.CPU_ARCH = "leon3"
    /\ Cfg.nacc >= 3
    /\ AccIrq(0) = 3 /\ AccIrq(2) = 3

-----------------------------------------------------------------------------
EthReserved == {SGMII_PIRQ, ETH_PIRQ}

\* the first line after irq that is not reserved for Ethernet
NextFreeLine(irq) == CHOOSE n \in irq + 1 .. irq + 3 :
                        n \notin EthReserved /\ \A m \in irq + 1 .. n - 1 : m \in EthReserved

\* C13: on ariane and ibex the first accelerator gets line 5, each further
\* accelerator in tile-scan order the next line that is not reserved for
\* Ethernet; no two accelerators share a line and none gets line 11 or 12.
C13_RiscvIrqLines ==
    (Resolved /\ soc.CPU_ARCH \in {"ariane", "ibex"}) =>
        /\ AccsInScanOrder
        /\ Cfg.nacc >= 1 => AccIrq(0) = 5
        /\ \A k \in 1 .. Cfg.nacc - 1 : AccIrq(k) = NextFreeLine(AccIrq(k - 1))
        /\ \A j, k \in 0 .. Cfg.nacc - 1 : AccIrq(j) = AccIrq(k) => j = k
        /\ \A k \in 0 .. Cfg.nacc - 1 : AccIrq(k) \notin EthReserved

C13_Witness ==
    /\ Resolved /\ soc.CPU_ARCH = "ariane"
    /\ Cfg.nacc >= 8
    /\ AccIrq(5) = 10 /\ AccIrq(6) = 13 /\ AccIrq(7) = 14

-----------------------------------------------------------------------------
\* an accelerator cell that declares a private cache
IsAccL2Cell(t) == IsAccCell(t) /\ CellOf(t).has_l2 = 1

\* C14: with coherence enabled the private cache of a CPU tile has the CPU's
\* identifier and the bus index at that offset of the private-cache band;
\* the private caches of accelerator tiles are numbered ncpu, ncpu+1, ... in
\* scan order; the identifiers are exactly 0..nl2-1 and nl2 is the number of
\* CPU tiles plus accelerator tiles with the private-cache flag.  With
\* coherence disabled there is no private cache.
C14_PrivateCacheIds ==
    Resolved =>
        IF Cfg.coherence
        THEN /\ \A t \in TileIds :
                   Cfg.tiles[t].l2 =
                       IF IsCpuCell(t)
                       THEN [id |-> Cfg.tiles[t].cpu_id, idx |-> 8 + Cfg.tiles[t].cpu_id]
                       ELSE IF IsAccL2Cell(t)
                       THEN [id |-> Cfg.ncpu + Rank(IsAccL2Cell, t), idx |-> -1]
                       ELSE cache_info
             /\ Cfg.nl2 = Count(IsCpuCell) + Count(IsAccL2Cell)
             /\ Len(Cfg.l2s) = Cfg.nl2
             /\ {Cfg.l2s[j].id : j \in DOMAIN Cfg.l2s} = 0 .. Cfg.nl2 - 1
             /\ {Cfg.tiles[t].l2.id : t \in TileIds} \ {-1} = 0 .. Cfg.nl2 - 1
        ELSE /\ Cfg.nl2 = 0
             /\ Cfg.l2s = << >>
             /\ \A t \in TileIds : Cfg.tiles[t].l2 = cache_info

C14_Witness ==
    /\ Resolved /\ Cfg.coherence
    /\ Cfg.ncpu >= 2 /\ Cfg.nl2 >= Cfg.ncpu + 2
    /\ Cfg.tiles[0].l2.id = Cfg.ncpu
    /\ \E t \in TileIds : Cfg.tiles[t].cpu_id = 1 /\ Cfg.tiles[t].l2 = [id |-> 1, idx |-> 9]

-----------------------------------------------------------------------------
(* Roles and sub-descriptors of a resolved tile *)

Roles == {"cpu", "acc", "mem", "slm", "slmddr", "misc", "empty"}

RoleIds(tile) == <<tile.cpu_id, tile.mem_id, tile.slm_id, tile.slmddr_id>>

Present(d) == d.id # -1

\* C15: after a completed resolution every tile has exactly one of the seven
\* roles; its CPU, memory, SLM and SLM-with-DDR identifiers are set exactly
\* for the roles cpu, mem, slm (flag has_ddr clear) and slmddr (flag set); its
\* accelerator descriptor is set exactly for role acc; its private-cache
\* descriptor exactly when coherence is on and the tile is a CPU or an
\* accelerator with has_l2 set; its LLC descriptor exactly when coherence is on
\* and the tile is a memory tile; at most one of the four role identifiers
\* differs from -1.
C15_OneRolePerTile ==
    Resolved =>
        \A t \in TileIds :
            LET tile == Cfg.tiles[t]
                ids == RoleIds(tile)
            IN /\ tile.type \in Roles
               /\ Cardinality({r \in Roles : tile.type = r}) = 1
               /\ (tile.cpu_id # -1) <=> (tile.type = "cpu")
               /\ (tile.mem_id # -1) <=> (tile.type = "mem")
               /\ (tile.slm_id # -1) <=> (tile.type = "slm")
               /\ (tile.slmddr_id # -1) <=> (tile.type = "slmddr")
               /\ (tile.type = "slm") => tile.has_ddr = 0
               /\ (tile.type = "slmddr") => tile.has_ddr # 0
               /\ Present(tile.acc) <=> (tile.type = "acc")
               /\ Present(tile.l2) <=>
                      (Cfg.coherence /\ (tile.type = "cpu"
                                          \/ (tile.type = "acc" /\ tile.has_l2 = 1)))
               /\ Present(tile.llc) <=> (Cfg.coherence /\ tile.type = "mem")
               /\ Cardinality({i \in 1 .. 4 : ids[i] # -1}) <= 1

\* a coherent configuration holding an SLM tile with DDR, a CPU whose flag is
\* clear but which has a private cache, and an accelerator without one
C15_Witness ==
    /\ Resolved
    /\ Cfg.coherence
    /\ \E t \in TileIds : Cfg.tiles[t].type = "slmddr" /\ Cfg.tiles[t].slm_id = -1
    /\ \E t \in TileIds : /\ Cfg.tiles[t].type = "cpu" /\ Cfg.tiles[t].has_l2 = 0
                          /\ Present(Cfg.tiles[t].l2)
    /\ \E t \in TileIds : Cfg.tiles[t].type = "acc" /\ ~Present(Cfg.tiles[t].l2)

-----------------------------------------------------------------------------
\* soc.noc.topology cells that declare the I/O role
IOCells == {c \in Coords(soc) : soc.topology[c[1]][c[2]].ip_type = "IO"}

\* C17 (as claimed): a topology in which more than one cell declares the I/O
\* role never resolves: no configuration object is produced for it.
C17_MultipleIORejected ==
    Cardinality(IOCells) > 1 => ~Resolved

-----------------------------------------------------------------------------
\* what a reader of an aggregate closed by "others => d" gets at index k
Lookup(tbl, d, k) == IF k \in Keys(tbl) THEN ValueAt(tbl, k) ELSE d

\* the tile-index -> identifier tables with their default, the matching
\* identifier -> tile-index table and the number of identifiers assigned
CategoryTables ==
    { [id_of |-> MapApb.tile_cpu_id, others |-> MapApb.others.tile_cpu_id,
       tile_of |-> MapApb.cpu_tile_id, n |-> Cfg.ncpu],
      [id_of |-> MapApb.tile_cache_id, others |-> MapApb.others.tile_cache_id,
       tile_of |-> MapApb.cache_tile_id, n |-> Cfg.nl2],
      [id_of |-> MapApb.tile_llc_id, others |-> MapApb.others.tile_llc_id,
       tile_of |-> MapApb.llc_tile_id, n |-> Cfg.nllc],
      [id_of |-> MapApb.tile_slm_id, others |-> MapApb.others.tile_slm_id,
       tile_of |-> MapApb.slm_tile_id, n |-> Cfg.nslm],
      [id_of |-> MapApb.tile_slmddr_id, others |-> MapApb.others.tile_slmddr_id,
       tile_of |-> MapApb.slmddr_tile_id, n |-> Cfg.nslmddr],
      [id_of |-> MapApb.tile_mem_id, others |-> MapApb.others.tile_mem_id,
       tile_of |-> MapApb.mem_tile_id, n |-> Cfg.nmem],
      [id_of |-> MapApb.tile_acc_id, others |-> MapApb.others.tile_acc_id,
       tile_of |-> MapApb.acc_tile_id, n |-> Cfg.nacc],
      [id_of |-> MapApb.tile_dma_id, others |-> MapApb.others.tile_dma_id,
       tile_of |-> MapApb.dma_tile_id, n |-> Cfg.nacc + 1] }

\* the identifier -> tile-index table has one association per assigned
\* identifier
OneEntryPerId(c) == Keys(c.tile_of) = 0 .. c.n - 1 /\ Functional(c.tile_of)

\* C16 (as claimed): in every emitted tile-index -> identifier table a tile
\* without an association reads a value that is not one of the identifiers
\* assigned in that category, and every identifier -> tile-index table has
\* exactly one association per assigned identifier.
C16_AbsentReadsSentinel ==
    Mapped =>
        \A c \in CategoryTables :
            /\ \A t \in TileIds \ Keys(c.id_of) :
                  Lookup(c.id_of, c.others, t) \notin 0 .. c.n - 1
            /\ OneEntryPerId(c)

\* the second half of C16 alone, which the emitted tables satisfy
C16_DenseHalf ==
    Mapped => \A c \in CategoryTables : OneEntryPerId(c)

\* the first half of C16 for the one table closed by "others => -1"
C16_DmaSentinel ==
    Mapped =>
        \A t \in TileIds \ Keys(MapApb.tile_dma_id) :
            Lookup(MapApb.tile_dma_id, MapApb.others.tile_dma_id, t) = -1

-----------------------------------------------------------------------------
\* a sequence of tile indices lists each tile of the set once, highest first
DescendingOver(seq, tiles) ==
    /\ {seq[k] : k \in DOMAIN seq} = tiles
    /\ \A j, k \in DOMAIN seq : j < k => seq[j] > seq[k]

CpuTiles == {t \in TileIds : Cfg.tiles[t].type = "cpu"}
MemTiles == {t \in TileIds : Cfg.tiles[t].type = "mem"}

\* C18: the emitted initialisation sequence has ntiles + ncpu entries; its
\* first entry is the I/O tile; its first ntiles entries hold every tile index
\* exactly once; the remaining ncpu entries are the CPU tiles in descending
\* tile order, so the last entry is the tile of CPU 0.
C18_InitSequence ==
    Mapped =>
        LET seq == MapSeq.esp_init_sequence
            n == Cfg.ntiles
        IN /\ Len(seq) = n + Cfg.ncpu
           /\ seq[1] = MapApb.io_tile_id
           /\ (\E t \in TileIds : Cfg.tiles[t].type = "misc")
                  => Cfg.tiles[seq[1]].type = "misc"
           /\ {seq[k] : k \in 1 .. n} = TileIds
           /\ \A j, k \in 1 .. n : seq[j] = seq[k] => j = k
           /\ DescendingOver(SubSeq(seq, n + 1, Len(seq)), CpuTiles)
           /\ Cfg.ncpu >= 1 => Cfg.tiles[seq[Len(seq)]].cpu_id = 0

\* the 3x3 grid with the I/O tile on tile 6 and CPUs on tiles 1 and 5
C18_Witness ==
    /\ Mapped
    /\ MapApb.io_tile_id = 6
    /\ MapSeq.esp_init_sequence = <<6, 7, 8, 3, 4, 5, 0, 1, 2, 5, 1>>

\* C19: the emitted reset sequence has nmem + ncpu entries: every memory
\* tile in descending tile order, then every CPU tile in descending tile
\* order, so the last entry is the tile of CPU 0.  The one named association
\* the code can write ("0 => tile") is the only element of its aggregate.
C19_ResetSequence ==
    Mapped =>
        LET seq == MapSeq.esp_srst_sequence.tiles
        IN /\ Len(seq) = Cfg.nmem + Cfg.ncpu
           /\ DescendingOver(SubSeq(seq, 1, Cfg.nmem), MemTiles)
           /\ DescendingOver(SubSeq(seq, Cfg.nmem + 1, Len(seq)), CpuTiles)
           /\ Cfg.ncpu >= 1 => Cfg.tiles[seq[Len(seq)]].cpu_id = 0
           /\ MapSeq.esp_srst_sequence.first_named => Len(seq) = 1

\* memories on tiles 3 and 8, CPUs on tiles 1 and 5
C19_Witness ==
    /\ Mapped
    /\ Cfg.nmem = 2 /\ Cfg.ncpu = 2
    /\ MapSeq.esp_srst_sequence.tiles = <<8, 3, 5, 1>>

-----------------------------------------------------------------------------
\* the tile a reader of apb_tile_id gets for bus index k
ApbTileAt(k) == Lookup(MapSeq.apb_tile_id, MapSeq.apb_others, k)

\* bus indices of the fixed-function slaves written to fixed_apbo_pconfig
\* (lines 1470-1475 and 1501-1510): UART, interrupt controller, timer,
\* ESPLink, and SVGA, Ethernet, SGMII when enabled
ESPLINK_PINDEX == 4

FixedSlaves ==
    {1, 2, 3, ESPLINK_PINDEX}
    \cup (IF Cfg.has_svga THEN {5} ELSE {})
    \cup (IF Cfg.has_eth THEN {6} ELSE {})
    \cup (IF Cfg.has_eth /\ Cfg.has_sgmii THEN {7} ELSE {})

\* every private cache, LLC split, CSR block and accelerator index reads its
\* own tile, and no index is written with two different tiles
OwnTiles ==
    /\ \A t \in TileIds :
          /\ (Cfg.coherence /\ Cfg.tiles[t].type = "cpu")
                 => ApbTileAt(Cfg.tiles[t].l2.idx) = t
          /\ (Cfg.coherence /\ Cfg.tiles[t].type = "mem")
                 => ApbTileAt(Cfg.tiles[t].llc.idx) = t
          /\ ApbTileAt(CSR_PINDEX[t]) = t
          /\ Cfg.tiles[t].type = "acc" => ApbTileAt(Cfg.tiles[t].acc.idx) = t
    /\ \A i, j \in DOMAIN MapSeq.apb_tile_id :
          MapSeq.apb_tile_id[i][1] = MapSeq.apb_tile_id[j][1]
              => MapSeq.apb_tile_id[i][2] = MapSeq.apb_tile_id[j][2]

\* C20 (as claimed): every private cache, LLC split, CSR block and
\* accelerator index reads its own tile in apb_tile_id, every fixed-function
\* slave that is present (1, 2, 3, ESPLink 4, SVGA 5, Ethernet 6, SGMII 7)
\* reads the I/O tile, and no index is given two tiles.
C20_ApbTileMap ==
    Mapped =>
        /\ OwnTiles
        /\ \A k \in FixedSlaves : ApbTileAt(k) = MapApb.io_tile_id

\* C20 without the ESPLink index, which the emitted table satisfies
C20_ExceptEsplink ==
    Mapped =>
        /\ OwnTiles
        /\ \A k \in FixedSlaves \ {ESPLINK_PINDEX} : ApbTileAt(k) = MapApb.io_tile_id

\* the ESPLink index has no association and reads the default
C20_EsplinkReadsDefault ==
    Mapped => ESPLINK_PINDEX \notin Keys(MapSeq.apb_tile_id) /\ ApbTileAt(ESPLINK_PINDEX) = 0

-----------------------------------------------------------------------------
\* the smallest power of two that is at least n (n >= 1)
CeilPow2(n) == CHOOSE p \in {2 ^ k : k \in 0 .. 14} : p >= n /\ (p = 1 \/ p \div 2 < n)

\* the number of 1024 KB addressing units needed to hold kbytes
UnitsOf(kbytes) == (kbytes + 1023) \div 1024

\* 12 bits set with the low log2(u) bits cleared, u a power of two
HighMask(u) == IF u >= 4096 THEN 0 ELSE 4096 - u

\* C21 (as claimed): the full SLM mask and the full SLM-with-DDR mask of a
\* resolved configuration are the 12-bit mask with the low log2(U) bits
\* cleared, U being the unit count of the total capacity rounded up to a power
\* of two, for every tile count; the mask written to cpu_tile_slm_hconfig is
\* that mask.
C21_FullMasksRounded ==
    Resolved =>
        /\ Cfg.nslm >= 1 =>
              /\ Cfg.slm_full_mask = HighMask(CeilPow2(UnitsOf(Cfg.slm_tot_kbytes)))
              /\ Mapped => MapSlm.cpu_tile_slm_hconfig.hmask = Cfg.slm_full_mask
        /\ Cfg.nslmddr >= 1 =>
              /\ Cfg.slmddr_full_mask = HighMask(CeilPow2(UnitsOf(Cfg.slmddr_tot_kbytes)))
              /\ Mapped => MapSlm.cpu_tile_slmddr_hconfig.hmask = Cfg.slmddr_full_mask

\* C21 for the totals that are a power-of-two number of units, which the
\* resolved masks satisfy
C21_PowerOfTwoTotals ==
    Resolved =>
        /\ (Cfg.nslm >= 1 /\ Cfg.slm_tot_kbytes = 1024 * CeilPow2(UnitsOf(Cfg.slm_tot_kbytes)))
              => Cfg.slm_full_mask = HighMask(CeilPow2(UnitsOf(Cfg.slm_tot_kbytes)))
        /\ (Cfg.nslmddr >= 1
              /\ Cfg.slmddr_tot_kbytes = 1024 * CeilPow2(UnitsOf(Cfg.slmddr_tot_kbytes)))
              => Cfg.slmddr_full_mask = HighMask(CeilPow2(UnitsOf(Cfg.slmddr_tot_kbytes)))

-----------------------------------------------------------------------------
\* the grid part of the initialisation sequence and the cell it starts from
InitGrid == SubSeq(MapSeq.esp_init_sequence, 1, Cfg.ntiles)
IoRow == Cfg.tiles[MapApb.io_tile_id].row
IoCol == Cfg.tiles[MapApb.io_tile_id].col
RowOf(t) == t \div soc.cols
ColOf(t) == t % soc.cols
Dist(a, b) == IF a >= b THEN a - b ELSE b - a

\* C22 (as claimed): in the first ntiles entries of the initialisation
\* sequence rows come in order of distance from the I/O tile's row, and inside
\* a row columns come in order of distance from the I/O tile's column: no tile
\* appears before a tile whose row is strictly closer to the I/O row, nor,
\* within one row, before a tile whose column is strictly closer.
C22_OutwardByDistance ==
    Mapped =>
        \A j, k \in 1 .. Cfg.ntiles :
            j < k =>
                /\ Dist(RowOf(InitGrid[j]), IoRow) <= Dist(RowOf(InitGrid[k]), IoRow)
                /\ RowOf(InitGrid[j]) = RowOf(InitGrid[k])
                      => Dist(ColOf(InitGrid[j]), IoCol) <= Dist(ColOf(InitGrid[k]), IoCol)

\* place of index i in the walk that starts at a, goes down to 0 and then
\* continues from a + 1 upwards
WalkRank(a, i) == IF i <= a THEN a - i ELSE i

Adjacent(t, u) ==
    \/ RowOf(t) = RowOf(u) /\ Dist(ColOf(t), ColOf(u)) = 1
    \/ ColOf(t) = ColOf(u) /\ Dist(RowOf(t), RowOf(u)) = 1

\* C22 (amended): the rows are visited from the I/O tile's row down to row 0
\* and then from the row after it up to the last row; inside every row the
\* columns are visited from the I/O tile's column down to column 0 and then
\* from the column after it up to the last; hence every tile after the first
\* is written after one of its grid neighbours.
C22_TowardsOriginThenBeyond ==
    Mapped =>
        /\ \A t \in TileIds :
              InitGrid[WalkRank(IoRow, RowOf(t)) * soc.cols + WalkRank(IoCol, ColOf(t)) + 1] = t
        /\ \A k \in 2 .. Cfg.ntiles : \E j \in 1 .. k - 1 : Adjacent(InitGrid[j], InitGrid[k])

\* a 4x2 grid with the I/O tile in row 2: row 0 is written before row 3
C22_Witness ==
    /\ Mapped
    /\ soc.rows = 4 /\ soc.cols = 2
    /\ MapApb.io_tile_id = 5
    /\ InitGrid = <<5, 4, 3, 2, 1, 0, 7, 6>>

-----------------------------------------------------------------------------
\* the emitted address configuration of accelerator i (0-based)
AccSlot(i) == MapApb.acc[i + 1]

IsThirdparty(i) == Cfg.accelerators[i + 1].vendor # "sld"

\* number of third-party accelerators before accelerator i in the list
ThirdpartyBefore(i) == Cardinality({k \in 0 .. i - 1 : IsThirdparty(k)})

\* the byte range an emitted configuration decodes: a 12-bit base and mask
\* over address bits 19..8 in the standard space, over bits 31..20 in the
\* extended space; a mask of 0 in a space decodes nothing there
SlotBytes(i) ==
    LET p == AccSlot(i)
    IN IF p.pmask_ext # 0
       THEN [lo |-> p.paddr_ext * 2 ^ 20, len |-> (4096 - p.pmask_ext) * 2 ^ 20]
       ELSE [lo |-> p.paddr * 2 ^ 8, len |-> (4096 - p.pmask) * 2 ^ 8]

Disjoint(a, b) == a.lo + a.len <= b.lo \/ b.lo + b.len <= a.lo

\* C23: an 'sld' accelerator with identifier i is given base SLD_APB_ADDR +
\* 2 * i and mask 16#FFE#; the k-th third-party accelerator in scan order (k
\* counting third-party accelerators only) is given base = window base + k *
\* window size in the one window selected by THIRDPARTY_APB_EXT_ADDRESS; the
\* byte ranges of any two accelerators are disjoint.
C23_AcceleratorSlots ==
    Mapped =>
        /\ AccsInScanOrder
        /\ Len(MapApb.acc) = Cfg.nacc
        /\ \A i \in 0 .. Cfg.nacc - 1 :
              LET p == AccSlot(i)
                  k == ThirdpartyBefore(i)
              IN /\ p.id = i
                 /\ IF ~IsThirdparty(i)
                    THEN /\ p.paddr = SLD_APB_ADDR + 2 * i
                         /\ p.pmask = 4094
                         /\ p.paddr_ext = 0 /\ p.pmask_ext = 0
                    ELSE IF THIRDPARTY_APB_EXT_ADDRESS = 0
                    THEN /\ p.paddr * 2 ^ 8
                              = THIRDPARTY_APB_ADDRESS + k * THIRDPARTY_APB_ADDRESS_SIZE
                         /\ (4096 - p.pmask) * 2 ^ 8 = THIRDPARTY_APB_ADDRESS_SIZE
                         /\ p.paddr_ext = 0
                    ELSE /\ p.paddr_ext * 2 ^ 20
                              = THIRDPARTY_APB_EXT_ADDRESS + k * THIRDPARTY_APB_EXT_ADDRESS_SIZE
                         /\ (4096 - p.pmask_ext) * 2 ^ 20 = THIRDPARTY_APB_EXT_ADDRESS_SIZE
                         /\ p.paddr = 0 /\ p.pmask = 0
        /\ \A i, j \in 0 .. Cfg.nacc - 1 : i # j => Disjoint(SlotBytes(i), SlotBytes(j))

\* 'sld' and third-party accelerators interleaved: accelerator 3 is the
\* second third-party one and accelerator 4 is an 'sld' one
C23_Witness ==
    /\ Mapped
    /\ Cfg.nacc >= 5
    /\ IsThirdparty(3) /\ ThirdpartyBefore(3) = 1 /\ AccSlot(3).paddr_ext = 5
    /\ ~IsThirdparty(4) /\ AccSlot(4).paddr = 264

-----------------------------------------------------------------------------
\* print_tiles wrote its masks in full for the current configuration
Tiled == Resolved /\ out.tiles # << >> /\ ~out.tiles[1].raised
TilesOut == out.tiles[1]

\* the index at which fixed_ahbso_hconfig places configuration n of a device
PlacedAt(dev, n) ==
    LET tbl == MapDdr.fixed_ahbso_hconfig
    IN tbl[CHOOSE j \in DOMAIN tbl : tbl[j][2] = [dev |-> dev, n |-> n]][1]

SeqSet(q) == {q[j] : j \in DOMAIN q}

\* the slm_hindex / slmddr_hindex values are SLM_HINDEX, SLM_HINDEX + 1, ...
\* with the SLM-with-DDR regions continuing after the SLM regions
HindexSequential ==
    /\ \A i \in 0 .. Cfg.nslm - 1 : ValueAt(MapSlm.slm_hindex, i) = SLM_HINDEX + i
    /\ \A i \in 0 .. Cfg.nslmddr - 1 :
          ValueAt(MapSlm.slmddr_hindex, i) = SLM_HINDEX + Cfg.nslm + i

\* C24 (as claimed): the SLM and SLM-with-DDR regions have sequential bus
\* indices from SLM_HINDEX, and the index listed for region i in slm_hindex /
\* slmddr_hindex is the index at which fixed_ahbso_hconfig places its
\* configuration and a bit set in remote_ahb_mask_misc and in slm_ahb_mask.
C24_SameIndexEverywhere ==
    (Mapped /\ Tiled) =>
        /\ HindexSequential
        /\ \A i \in 0 .. Cfg.nslm - 1 :
              LET h == ValueAt(MapSlm.slm_hindex, i)
              IN /\ PlacedAt("slm", i) = h
                 /\ h \in SeqSet(TilesOut.remote_ahb_mask_misc)
                 /\ h \in SeqSet(TilesOut.slm_ahb_mask[1])
        /\ \A i \in 0 .. Cfg.nslmddr - 1 :
              LET h == ValueAt(MapSlm.slmddr_hindex, i)
              IN /\ PlacedAt("slmddr", i) = h
                 /\ h \in SeqSet(TilesOut.remote_ahb_mask_misc)
                 /\ h \in SeqSet(TilesOut.slm_ahb_mask[1])

\* the hindex tables alone are sequential from SLM_HINDEX
C24_HindexSequential ==
    Mapped => HindexSequential

\* fixed_ahbso_hconfig and the two masks agree with each other: region i is
\* placed, and flagged, one above the index the hindex tables list for it
C24_PlacementOneAbove ==
    (Mapped /\ Tiled) =>
        /\ \A i \in 0 .. Cfg.nslm - 1 :
              PlacedAt("slm", i) = ValueAt(MapSlm.slm_hindex, i) + 1
        /\ \A i \in 0 .. Cfg.nslmddr - 1 :
              PlacedAt("slmddr", i) = ValueAt(MapSlm.slmddr_hindex, i) + 1
        /\ SeqSet(TilesOut.slm_ahb_mask[1])
              = {PlacedAt("slm", i) : i \in 0 .. Cfg.nslm - 1}
                \cup {PlacedAt("slmddr", i) : i \in 0 .. Cfg.nslmddr - 1}
        /\ SeqSet(TilesOut.slm_ahb_mask[1]) \subseteq SeqSet(TilesOut.remote_ahb_mask_misc)

-----------------------------------------------------------------------------
\* tile indices of the cells that declare the I/O role
IOTiles == {c[1] * soc.cols + c[2] : c \in IOCells}

\* C25: the cells declaring the I/O role never stop a resolution (a walk is
\* abandoned only on a coherent input with more CPU or memory tiles than the
\* index bands hold); every declaring cell becomes a 'misc' tile and the
\* emitted io_tile_id is the highest declaring tile index, so with several
\* declarations the last one in row-major order wins and with one it is that
\* cell.
C25_LastIOWins ==
    /\ pc = "error" =>
          /\ soc.cache_en # 0
          /\ get_cpu_num(soc) > NCPU_MAX \/ get_mem_num(soc) > NMEM_MAX
    /\ Resolved => \A t \in TileIds : (Cfg.tiles[t].type = "misc") <=> (t \in IOTiles)
    /\ (Mapped /\ IOTiles # {}) =>
          /\ MapApb.io_tile_id \in IOTiles
          /\ \A t \in IOTiles : t <= MapApb.io_tile_id

\* two declaring cells, tiles 3 and 5: the I/O tile is 5
C25_Witness ==
    /\ Mapped
    /\ IOTiles = {3, 5}
    /\ MapApb.io_tile_id = 5

-----------------------------------------------------------------------------
\* address ranges in units of the 12-bit address field
Span(lo, len) == [lo |-> lo, len |-> len]
Inside(a, b) == b.lo <= a.lo /\ a.lo + a.len <= b.lo + b.len

\* the range ddr_haddr(m) / ddr_hmask(m) decode for controller m
DdrRegion(m) ==
    Span(ValueAt(MapDdr.ddr_haddr, m), 4096 - ValueAt(MapDdr.ddr_hmask, m))

\* the range controller m is given: its base and the per-controller size
DdrRange(m) ==
    Span(ValueAt(MapDdr.ddr_haddr, m),
         IF Cfg.nmem > 4 THEN DDR_SIZE \div 8 ELSE DDR_SIZE \div Cfg.nmem)

DdrWindow == Span(DDR_HADDR[soc.CPU_ARCH], DDR_SIZE)
BridgeWindow == Span(AHB2APB_HADDR[soc.CPU_ARCH], AHB2APB_WINDOW)
SlmDdrWindow == Span(SLMDDR_HADDR, SLMDDR_REGION)

RegionsSafe ==
    /\ \A m \in 0 .. Cfg.nmem - 1 :
          /\ Inside(DdrRange(m), DdrWindow)
          /\ DdrRange(m).lo + DdrRange(m).len <= 4096
          /\ Disjoint(DdrRange(m), BridgeWindow)
          /\ Disjoint(DdrRange(m), SlmDdrWindow)
    /\ \A m, k \in 0 .. Cfg.nmem - 1 : m # k => Disjoint(DdrRange(m), DdrRange(k))

\* C26 (as claimed): for every memory-controller count 1..NMEM_MAX and every
\* architecture the controller ranges lie inside the DDR window, fit the
\* 12-bit field, are pairwise disjoint and overlap neither the I/O bridge
\* window nor the SLM-with-DDR window.
C26_DdrRegionsSafe ==
    (Mapped /\ Cfg.nmem >= 1 /\ Cfg.nmem <= NMEM_MAX) => RegionsSafe

\* C26 for at most eight controllers, which the emitted tables satisfy
C26_UpToEight ==
    (Mapped /\ Cfg.nmem >= 1 /\ Cfg.nmem <= 8) => RegionsSafe

-----------------------------------------------------------------------------
WithinCeilings == Cfg.nmem <= NMEM_MAX /\ Cfg.nslm + Cfg.nslmddr <= NSLM_MAX

\* C27 (as claimed): for every topology within the ceilings every index at
\* which fixed_ahbso_hconfig places a slave is below NAHBS and no two slaves
\* are placed at one index.
C27_AhbIndicesInRange ==
    (Mapped /\ WithinCeilings) =>
        /\ \A k \in Keys(MapDdr.fixed_ahbso_hconfig) : 0 <= k /\ k < NAHBS
        /\ Functional(MapDdr.fixed_ahbso_hconfig)

\* no two slaves share an index within the ceilings, and the indices are
\* below NAHBS as long as there are at most eleven SLM and SLM-with-DDR regions
C27_UniqueAndSmall ==
    (Mapped /\ WithinCeilings) =>
        /\ Functional(MapDdr.fixed_ahbso_hconfig)
        /\ Cfg.nslm + Cfg.nslmddr <= 11
              => \A k \in Keys(MapDdr.fixed_ahbso_hconfig) : 0 <= k /\ k < NAHBS
        /\ Cfg.nslm + Cfg.nslmddr >= 12
              => SLM_HINDEX + Cfg.nslm + Cfg.nslmddr \in Keys(MapDdr.fixed_ahbso_hconfig)

-----------------------------------------------------------------------------
\* C28 (as claimed): for every number of accelerator tiles up to NACC_MAX and
\* every CPU architecture each accelerator's interrupt line is a physical
\* line, 0 <= irq < IRQ_LINES.
C28_IrqLinesValid ==
    (Resolved /\ Cfg.nacc <= NACC_MAX) =>
        \A k \in 0 .. Cfg.nacc - 1 : 0 <= AccIrq(k) /\ AccIrq(k) < IRQ_LINES

\* on leon3 every line is valid; on ariane and ibex the lines are valid for
\* the first 25 accelerators and the k-th accelerator from the 26th on gets
\* line k + 7, which is no physical line
C28_ValidUpTo25 ==
    (Resolved /\ Cfg.nacc <= NACC_MAX) =>
        \A k \in 0 .. Cfg.nacc - 1 :
            /\ 0 <= AccIrq(k)
            /\ (soc.CPU_ARCH = "leon3" \/ k < 25) => AccIrq(k) < IRQ_LINES
            /\ (soc.CPU_ARCH # "leon3" /\ k >= 25) => AccIrq(k) = k + 7

-----------------------------------------------------------------------------
Scripted == Resolved /\ out.load_script # << >>
Script == out.load_script[1]
ScriptLim == BigAdd(LoadSp(soc.CPU_ARCH), LineSize)
ScriptEnd == LoadEnd(Cfg, soc.CPU_ARCH)

\* the start and size lists have nddr entries each and every region lies
\* between the reserved area and the end of the usable range
ScriptWellFormed ==
    /\ Len(Script.starts) = Script.nddr
    /\ Len(Script.sizes) = Script.nddr
    /\ \A i \in 1 .. Script.nddr :
          /\ BigLe(ScriptLim, Script.starts[i])
          /\ BigLe(BigAdd(Script.starts[i], Script.sizes[i]), ScriptEnd)

\* C29 (as claimed): for every memory-controller count 1..NMEM_MAX, every
\* CPU architecture and every third-party accelerator count the load script
\* is generated without raising, with nddr starts and nddr sizes, each region
\* below the end of the usable range and above the reserved area.
C29_LoadScriptTerminates ==
    (Scripted /\ Cfg.nmem >= 1 /\ Cfg.nmem <= NMEM_MAX) =>
        ~Script.raised /\ ScriptWellFormed

\* the script is well formed whenever the end of the range is the end of the
\* DDR window (leon3, or no third-party accelerator), and whenever the
\* generation does not raise
C29_WellFormedUnlessRaised ==
    (Scripted /\ Cfg.nmem >= 1 /\ Cfg.nmem <= NMEM_MAX) =>
        /\ ~Script.raised => ScriptWellFormed
        /\ Script.raised => (soc.CPU_ARCH # "leon3" /\ Cfg.nthirdparty > 0)

-----------------------------------------------------------------------------
\* the byte range the load script attributes to controller m
ScriptRange(m) == [lo |-> LoadAddr(Cfg, soc.CPU_ARCH, m), len |-> LoadSize(Cfg)]
\* the byte range the memory map decodes for controller m
MapRange(m) == [lo |-> BigMB(DdrRegion(m).lo), len |-> BigMB(DdrRegion(m).len)]

BothRendered == Mapped /\ Scripted /\ Cfg.nmem >= 1

\* C30 (as claimed): for every memory-controller count n >= 1 the range the
\* load script attributes to controller m is the range ddr_haddr(m) and
\* ddr_hmask(m) assign to it, also for n > 4 and for n not dividing the
\* DDR window.
C30_ScriptMatchesMap ==
    BothRendered => \A m \in 0 .. Cfg.nmem - 1 : ScriptRange(m) = MapRange(m)

\* the two ranges agree for 1, 2, 4 and 8 controllers; for every other count
\* the per-controller sizes differ
C30_AgreeOnlyOnPowers ==
    BothRendered =>
        /\ ScriptRange(0).lo = MapRange(0).lo
        /\ Cfg.nmem \in {1, 2, 4, 8}
              => \A m \in 0 .. Cfg.nmem - 1 : ScriptRange(m) = MapRange(m)
        /\ Cfg.nmem \notin {1, 2, 4, 8} => ScriptRange(0).len # MapRange(0).len

====
